---------------------------- MODULE Spec2Model ----------------------------
(***************************************************************************)
(* A model of the fguess format-guessing engine (src/analysis.py,          *)
(* src/numeric_detection.py, src/datetime_detection.py, src/patterns.py,   *)
(* src/format_spec.py), and of the ElectricityUsageAnalyzer of             *)
(* src/average_usage.py.                                                   *)
(*                                                                         *)
(* A Python str is modelled as a sequence of one-character strings, so     *)
(* that indexing, slicing, stripping and regular-expression matching are   *)
(* computed and not assumed.  A regular expression R is an operator        *)
(* R(s, p) that yields the sequence of positions at which a match of R     *)
(* starting at position p of s can end, in the order in which Python's     *)
(* backtracking matcher tries them (positions are 1-based; a match that    *)
(* ends at q consumed s[p..q-1]).                                          *)
(***************************************************************************)
EXTENDS Integers, Sequences, FiniteSets, TLC

VARIABLES
    sample,     \* the input string of the operation
    op,         \* the operation that has run on it ("none" before any has)
    args,       \* the other inputs of that operation
    raised,     \* TRUE iff the operation ended with an exception
    results,    \* analyze_number_format: the returned list of (kind, text)
    dt,         \* analyze_number_format: what the datetime step found
    parts,      \* split_numeric_literals: (prefix, num, suffix)
    padding,    \* detect_padding: (core, left_pad, right_pad, fill_char)
    specs,      \* parse_number_to_spec: the returned list of FormatSpec
    test_value, \* get_test_value: the returned value
    weekly_usage,   \* ElectricityUsageAnalyzer: day -> window -> readings
    malformed_rows, \* ElectricityUsageAnalyzer: the counter of malformed rows
    averages,   \* what calculate_averages returned last (<<>> before)
    rows,       \* the rows handed to process_row so far, in order
    crashed     \* TRUE iff an exception has left process_csv_data

\* the state of the format-guessing functions, but for their sample
guess == <<op, args, raised, results, dt, parts, padding, specs, test_value>>

\* the state of the analyzer and of its caller
usage == <<weekly_usage, malformed_rows, averages, rows, crashed>>

vars == <<sample, guess, usage>>

----------------------------------------------------------------------------
(* Characters and strings *)

Digits == {"0", "1", "2", "3", "4", "5", "6", "7", "8", "9"}

LowerLetters == <<"a", "b", "c", "d", "e", "f", "g", "h", "i", "j", "k", "l", "m",
                  "n", "o", "p", "q", "r", "s", "t", "u", "v", "w", "x", "y", "z">>

UpperLetters == <<"A", "B", "C", "D", "E", "F", "G", "H", "I", "J", "K", "L", "M",
                  "N", "O", "P", "Q", "R", "S", "T", "U", "V", "W", "X", "Y", "Z">>

Range(f) == {f[k] : k \in DOMAIN f}

Letters == Range(LowerLetters) \cup Range(UpperLetters)

HexDigits == Digits \cup {"a", "b", "c", "d", "e", "f", "A", "B", "C", "D", "E", "F"}

HexLetters == HexDigits \ Digits

\* \s of the re module and the characters str.strip() removes
Whitespace == {" ", "\t", "\n", "\r", "\f"}

\* \w of the re module
WordChars == Letters \cup Digits \cup {"_"}

Signs == {"+", "-"}

Min(a, b) == IF a < b THEN a ELSE b

\* s[p..q-1]
Slice(s, p, q) == SubSeq(s, p, q - 1)

\* str.lower() of one character
LowerOf ==
    [c \in Range(UpperLetters) |->
        LowerLetters[CHOOSE k \in DOMAIN UpperLetters : UpperLetters[k] = c]]

ToLower(c) == IF c \in DOMAIN LowerOf THEN LowerOf[c] ELSE c

Least(S) == CHOOSE x \in S : \A y \in S : x <= y

Greatest(S) == CHOOSE x \in S : \A y \in S : x >= y

\* the number of consecutive characters of class C from position p on
Run(C, s, p) ==
    IF p > Len(s) THEN 0
    ELSE Least({q \in p..(Len(s) + 1) : q = Len(s) + 1 \/ s[q] \notin C}) - p

\* the number of consecutive characters of class C backwards from position p
RunBack(C, s, p) ==
    IF p < 1 THEN 0
    ELSE p - Greatest({q \in 0..p : q = 0 \/ s[q] \notin C})

\* sub in text
Contains(text, sub) ==
    \E p \in 1..(Len(text) - Len(sub) + 1) : Slice(text, p, p + Len(sub)) = sub

\* text.startswith(pre)
StartsWith(text, pre) ==
    Len(pre) <= Len(text) /\ SubSeq(text, 1, Len(pre)) = pre

\* text.removeprefix(pre)
RemovePrefix(text, pre) ==
    IF StartsWith(text, pre) THEN SubSeq(text, Len(pre) + 1, Len(text)) ELSE text

\* text.removesuffix(suf)
RemoveSuffix(text, suf) ==
    IF Len(suf) <= Len(text) /\ SubSeq(text, Len(text) - Len(suf) + 1, Len(text)) = suf
    THEN SubSeq(text, 1, Len(text) - Len(suf))
    ELSE text

\* text.lstrip(chars), text.rstrip(chars), text.strip() with chars a set
LStrip(text, C) == SubSeq(text, Run(C, text, 1) + 1, Len(text))

RStrip(text, C) == SubSeq(text, 1, Len(text) - RunBack(C, text, Len(text)))

Strip(text) == LStrip(RStrip(text, Whitespace), Whitespace)

\* text.replace(c, "") for a one-character c
Remove(text, c) == SelectSeq(text, LAMBDA x : x # c)

\* str(n) for n >= 0
RECURSIVE IntToStr(_)
IntToStr(n) ==
    LET d == <<"0", "1", "2", "3", "4", "5", "6", "7", "8", "9">>[(n % 10) + 1]
    IN  IF n < 10 THEN <<d>> ELSE IntToStr(n \div 10) \o <<d>>

DigitVal(c) ==
    CASE c = "0" -> 0 [] c = "1" -> 1 [] c = "2" -> 2 [] c = "3" -> 3 [] c = "4" -> 4
      [] c = "5" -> 5 [] c = "6" -> 6 [] c = "7" -> 7 [] c = "8" -> 8 [] c = "9" -> 9
      [] ToLower(c) = "a" -> 10 [] ToLower(c) = "b" -> 11 [] ToLower(c) = "c" -> 12
      [] ToLower(c) = "d" -> 13 [] ToLower(c) = "e" -> 14 [] ToLower(c) = "f" -> 15

\* the value of a string of digits in the given base
RECURSIVE DigitsVal(_, _)
DigitsVal(s, base) ==
    IF s = <<>> THEN 0
    ELSE DigitsVal(SubSeq(s, 1, Len(s) - 1), base) * base + DigitVal(s[Len(s)])

RECURSIVE Pow10(_)
Pow10(n) == IF n = 0 THEN 1 ELSE 10 * Pow10(n - 1)

----------------------------------------------------------------------------
(* Regular expressions as matchers: the end positions of the matches at p *)

\* one character of class C
One(C, s, p) == IF p <= Len(s) /\ s[p] \in C THEN <<p + 1>> ELSE <<>>

\* C{lo,hi}, greedy: the longest run first
Rep(C, lo, hi, s, p) ==
    LET r == Min(Run(C, s, p), hi)
    IN  IF r < lo THEN <<>> ELSE [k \in 1..(r - lo + 1) |-> p + r - k + 1]

\* C* and C+
Star(C, s, p) == Rep(C, 0, Len(s), s, p)

Plus(C, s, p) == Rep(C, 1, Len(s), s, p)

\* F applied to the value of v, which is computed once
Bind(v, F(_)) == CHOOSE r \in {F(x) : x \in {v}} : TRUE

\* the ends of F from each of the ends e, in order
ThenEach(e, F(_)) ==
    LET acc[k \in 0..Len(e)] ==
            IF k = 0 THEN <<>> ELSE acc[k - 1] \o F(e[k])
    IN  acc[Len(e)]

\* X followed by F: the ends of F from each end of X, in order
Then(ends, F(_)) == Bind(ends, LAMBDA e : ThenEach(e, F))

\* (?:X)?, greedy: with X first, then without
Opt(ends, p) == ends \o <<p>>

\* re.fullmatch of a matcher
FullMatch(R(_, _), s) ==
    \E ends \in {R(s, 1)} : \E k \in DOMAIN ends : ends[k] = Len(s) + 1

----------------------------------------------------------------------------
(* src/patterns.py *)

\* 0[xX][0-9a-fA-F]+
HEX_RE(s, p) ==
    Then(Then(One({"0"}, s, p),
         LAMBDA a : One({"x", "X"}, s, a)),
         LAMBDA b : Plus(HexDigits, s, b))

\* [0-9]*[a-fA-F]+[0-9]*
UNPREFIXED_HEX_RE(s, p) ==
    Then(Then(Star(Digits, s, p),
         LAMBDA a : Plus(HexLetters, s, a)),
         LAMBDA b : Star(Digits, s, b))

\* [+-]?\d+\.?\d*%
PERCENT_RE(s, p) ==
    Then(Then(Then(Then(Opt(One(Signs, s, p), p),
         LAMBDA a : Plus(Digits, s, a)),
         LAMBDA b : Opt(One({"."}, s, b), b)),
         LAMBDA c : Star(Digits, s, c)),
         LAMBDA d : One({"%"}, s, d))

\* 0+\d+\.?\d*
ZERO_PADDED_RE(s, p) ==
    Then(Then(Then(Plus({"0"}, s, p),
         LAMBDA a : Plus(Digits, s, a)),
         LAMBDA b : Opt(One({"."}, s, b), b)),
         LAMBDA c : Star(Digits, s, c))

\* sep\d{3}
Group3(sep, s, p) ==
    Then(One({sep}, s, p), LAMBDA a : Rep(Digits, 3, 3, s, a))

\* (?:sep\d{3})*
RECURSIVE Group3Star(_, _, _)
Group3Star(sep, s, p) ==
    Opt(Then(Group3(sep, s, p), LAMBDA e : Group3Star(sep, s, e)), p)

\* [+-]?\d{1,3}(?:sep\d{3})+(?:\.\d+)?
GroupedNumber(sep, s, p) ==
    Then(Then(Then(Then(Opt(One(Signs, s, p), p),
         LAMBDA a : Rep(Digits, 1, 3, s, a)),
         LAMBDA b : Group3(sep, s, b)),
         LAMBDA c : Group3Star(sep, s, c)),
         LAMBDA d : Opt(Then(One({"."}, s, d), LAMBDA e : Plus(Digits, s, e)), d))

\* [+-]?\d{1,3}(?:,\d{3})+(?:\.\d+)?
THOUSANDS_RE(s, p) == GroupedNumber(",", s, p)

\* [+-]?\d{1,3}(?:_\d{3})+(?:\.\d+)?
UNDERSCORE_RE(s, p) == GroupedNumber("_", s, p)

\* [+-]?\d+\.?\d*
NUMBER_RE(s, p) ==
    Then(Then(Then(Opt(One(Signs, s, p), p),
         LAMBDA a : Plus(Digits, s, a)),
         LAMBDA b : Opt(One({"."}, s, b), b)),
         LAMBDA c : Star(Digits, s, c))

\* the groups of a match, or no match
NoMatch == [matched |-> FALSE, prefix |-> <<>>, num |-> <<>>, suffix |-> <<>>]

Groups(pre, num, suf) == [matched |-> TRUE, prefix |-> pre, num |-> num, suffix |-> suf]

\* "." matches every character but a line break
Dots(t) == \A k \in DOMAIN t : t[k] # "\n"

\* re.compile("(.*?)(R)(.*)").fullmatch(s): the shortest prefix after which R
\* matches, and R's first match there that the rest of the line can follow
FullSplit(R(_, _), s) ==
    LET n == Len(s)
        \* the first of the ends of R that the rest of the line follows, or 0
        fit(ends) ==
            LET ok == {k \in DOMAIN ends : Dots(Slice(s, ends[k], n + 1))}
            IN  IF ok = {} THEN 0
                ELSE ends[CHOOSE x \in ok : \A y \in ok : x <= y]
        \* the prefixes after which R matches that way
        starts == {i \in 0..n : Dots(SubSeq(s, 1, i)) /\ Bind(R(s, i + 1), fit) # 0}
        groups(i, e) == Groups(SubSeq(s, 1, i), Slice(s, i + 1, e), Slice(s, e, n + 1))
    IN  Bind(starts, LAMBDA found :
            IF found = {} THEN NoMatch
            ELSE Bind(CHOOSE i \in found : \A j \in found : i <= j, LAMBDA i :
                     Bind(Bind(R(s, i + 1), fit), LAMBDA e : groups(i, e))))

FULL_HEX_RE(s) == FullSplit(HEX_RE, s)

\* ()([0-9]*[a-fA-F]+[0-9]*)(): both outer groups are empty
FULL_UNPREFIXED_HEX_RE(s) ==
    IF FullMatch(UNPREFIXED_HEX_RE, s) THEN Groups(<<>>, s, <<>>) ELSE NoMatch

FULL_PERCENT_RE(s) == FullSplit(PERCENT_RE, s)

FULL_THOUSANDS_RE(s) == FullSplit(THOUSANDS_RE, s)

FULL_UNDERSCORE_RE(s) == FullSplit(UNDERSCORE_RE, s)

FULL_NUMBER_RE(s) == FullSplit(NUMBER_RE, s)

PAD_CHARS == <<" ", "_", "*">>

----------------------------------------------------------------------------
(* Python's int(), float() and abs() *)

\* digits of the base, single underscores allowed between them
DigitString(t, C) ==
    /\ t # <<>>
    /\ \A k \in DOMAIN t : t[k] \in C \cup {"_"}
    /\ t[1] # "_" /\ t[Len(t)] # "_"
    /\ ~Contains(t, <<"_", "_">>)

Unsigned(t) == IF t # <<>> /\ t[1] \in Signs THEN Tail(t) ELSE t

Negative(t) == t # <<>> /\ t[1] = "-"

\* the digits int(t, 16) reads: a "0x" or "0X" prefix is allowed
HexBody(t) ==
    IF Len(t) >= 2 /\ t[1] = "0" /\ t[2] \in {"x", "X"} THEN SubSeq(t, 3, Len(t)) ELSE t

\* int(t, base) does not raise ValueError
IntOK(t, base) ==
    LET u == Unsigned(Strip(t))
    IN  IF base = 16 THEN DigitString(HexBody(u), HexDigits) ELSE DigitString(u, Digits)

\* int(t, base)
IntVal(t, base) ==
    LET u == Unsigned(Strip(t))
        v == DigitsVal(Remove(IF base = 16 THEN HexBody(u) ELSE u, "_"), base)
    IN  IF Negative(Strip(t)) THEN 0 - v ELSE v

\* the parts of a decimal literal: before the point, after it, the exponent
Mantissa(u) == SubSeq(u, 1, Run(UNION {Digits, {"_", "."}}, u, 1))

IntPart(u) == SubSeq(u, 1, Run(Digits \cup {"_"}, u, 1))

FracPart(u) ==
    LET m == Mantissa(u)
        i == Len(IntPart(u))
    IN  IF i < Len(m) THEN SubSeq(m, i + 2, Len(m)) ELSE <<>>

Exponent(u) == SubSeq(u, Len(Mantissa(u)) + 1, Len(u))

\* float(t) does not raise ValueError
FloatOK(t) ==
    LET u == Unsigned(Strip(t))
        m == Mantissa(u)
        i == IntPart(u)
        f == FracPart(u)
        e == Exponent(u)
        word == [k \in DOMAIN u |-> ToLower(u[k])]
    IN  \/ word \in {<<"i", "n", "f">>, <<"n", "a", "n">>,
                     <<"i", "n", "f", "i", "n", "i", "t", "y">>}
        \/ /\ i \o f # <<>>
           /\ i = <<>> \/ DigitString(i, Digits)
           /\ f = <<>> \/ DigitString(f, Digits)
           /\ Len(m) <= Len(i) + 1 + Len(f)
           /\ Len(m) > Len(i) => m[Len(i) + 1] = "."
           /\ \/ e = <<>>
              \/ /\ e[1] \in {"e", "E"}
                 /\ DigitString(Unsigned(Tail(e)), Digits)

\* a number as the fraction num/den (den a power of ten)
Num(n, d) == [num |-> n, den |-> d]

\* float(t) of a decimal literal without exponent (the only ones the call sites pass)
FloatVal(t) ==
    LET u == Unsigned(Strip(t))
        f == Remove(FracPart(u), "_")
        v == DigitsVal(Remove(IntPart(u), "_") \o f, 10)
    IN  Num(IF Negative(Strip(t)) THEN 0 - v ELSE v, Pow10(Len(f)))

Abs(v) == Num(IF v.num < 0 THEN 0 - v.num ELSE v.num, v.den)

----------------------------------------------------------------------------
(* src/format_spec.py *)

\* the dataclass with its defaults; decimals is <<>> for None, <<n>> for n
FormatSpec ==
    [align |-> <<>>, fill |-> <<>>, width |-> 0, comma |-> FALSE, underscore |-> FALSE,
     decimals |-> <<>>, type_char |-> <<>>, sign |-> <<>>, prefix |-> <<>>,
     suffix |-> <<>>, value_type |-> "str", test_value |-> Num(0, 1),
     datetime_format |-> <<>>]

\* "{variable" as characters
VariableText == <<"{", "v", "a", "r", "i", "a", "b", "l", "e">>

\* f'f"{prefix}{{variable:{spec}}}{suffix}"' and f'f"{prefix}{{variable}}{suffix}"'
Wrap(prefix, spec, suffix) ==
    <<"f", "\"">> \o prefix \o VariableText
        \o (IF spec # <<>> THEN <<":">> \o spec ELSE <<>>) \o <<"}">> \o suffix \o <<"\"">>

\* build_format_spec with the one order fill, align, sign for every spec
BuildFillFirst(align, fill, width, comma, underscore, decimals, type_char, sign, prefix, suffix) ==
    Wrap(prefix,
         (IF fill # <<" ">> THEN fill ELSE <<>>) \o align \o sign
             \o (IF width # 0 THEN IntToStr(width) ELSE <<>>)
             \o (IF underscore THEN <<"_">> ELSE IF comma THEN <<",">> ELSE <<>>)
             \o (IF decimals # <<>> THEN <<".">> \o IntToStr(decimals[1]) ELSE <<>>)
             \o (IF type_char = <<"d">> /\ (comma \/ underscore) /\ width = 0
                 THEN <<>> ELSE type_char),
         suffix)

\* build_format_spec that leaves the "d" out for every grouped integer
BuildWithoutTypeWhenGrouped(align, fill, width, comma, underscore, decimals, type_char, sign, prefix, suffix) ==
    LET fill1 == IF fill # <<" ">> THEN fill ELSE <<>>
        tail == (IF width # 0 THEN IntToStr(width) ELSE <<>>)
                    \o (IF underscore THEN <<"_">> ELSE IF comma THEN <<",">> ELSE <<>>)
                    \o (IF decimals # <<>> THEN <<".">> \o IntToStr(decimals[1]) ELSE <<>>)
                    \o (IF type_char = <<"d">> /\ (comma \/ underscore)
                        THEN <<>> ELSE type_char)
    IN  Wrap(prefix,
             IF align # <<>> THEN fill1 \o align \o sign \o tail ELSE sign \o fill1 \o tail,
             suffix)

build_format_spec(align, fill, width, comma, underscore, decimals, type_char, sign, prefix, suffix) ==
    LET fill1 == IF fill # <<" ">> THEN fill ELSE <<>>
        width_str == IF width # 0 THEN IntToStr(width) ELSE <<>>
        comma_str == IF comma THEN <<",">> ELSE <<>>
        underscore_str == IF underscore THEN <<"_">> ELSE <<>>
        decimals_str == IF decimals # <<>> THEN <<".">> \o IntToStr(decimals[1]) ELSE <<>>
        separator_str == IF underscore_str # <<>> THEN underscore_str ELSE comma_str
        type_char1 == IF type_char = <<"d">> /\ (comma \/ underscore) /\ width = 0
                      THEN <<>> ELSE type_char
        spec == IF align # <<>>
                THEN fill1 \o align \o sign \o width_str \o separator_str
                         \o decimals_str \o type_char1
                ELSE sign \o fill1 \o width_str \o separator_str
                         \o decimals_str \o type_char1
    IN  Wrap(prefix, spec, suffix)

\* FormatSpec.build
build(self) ==
    IF self.value_type = "datetime"
    THEN <<"f", "\"">> \o self.prefix \o VariableText \o <<":">> \o self.datetime_format
             \o <<"}">> \o self.suffix \o <<"\"">>
    ELSE build_format_spec(self.align, self.fill, self.width, self.comma,
                           self.underscore, self.decimals, self.type_char, self.sign,
                           self.prefix, self.suffix)

\* FormatSpec.as_tuple
as_tuple(self) == <<self.value_type, build(self)>>

----------------------------------------------------------------------------
(* src/numeric_detection.py *)

NumberParts(prefix, num, suffix) == [prefix |-> prefix, num |-> num, suffix |-> suffix]

is_padding(text) ==
    Len(text) > 0 /\ Cardinality(Range(text)) = 1 /\ text[1] \in Range(PAD_CHARS)

\* len(number_string.split(".")[1]) if "." in number_string else 0
count_decimals(number_string) ==
    LET dot == Run({c \in Range(number_string) : c # "."}, number_string, 1) + 1
    IN  IF "." \in Range(number_string)
        THEN Run({c \in Range(number_string) : c # "."}, number_string, dot + 1)
        ELSE 0

\* the pad test that asks for pads on both sides and compares their lengths
SplitUnlessPaddedByLength(m, s) ==
    IF /\ is_padding(m.prefix)
       /\ is_padding(m.suffix)
       /\ (Len(m.prefix) # Len(m.suffix) \/ m.prefix[1] = m.suffix[1])
    THEN NumberParts(<<>>, s, <<>>)
    ELSE NumberParts(m.prefix, m.num, m.suffix)

\* the pad test answering with the matched number alone, without its pads
SplitDroppingPads(m, s) ==
    LET left_pad == is_padding(m.prefix)
        right_pad == is_padding(m.suffix)
    IN  IF (left_pad \/ right_pad)
           /\ (left_pad # right_pad \/ m.prefix[1] = m.suffix[1])
        THEN NumberParts(<<>>, m.num, <<>>)
        ELSE NumberParts(m.prefix, m.num, m.suffix)

\* the pad test applied to the groups of a percentage, grouped or plain match:
\* the whole string when the groups look like padding, the groups otherwise
SplitUnlessPadded(m, s) ==
    LET left_pad == is_padding(m.prefix)
        right_pad == is_padding(m.suffix)
    IN  IF (left_pad \/ right_pad)
           /\ (left_pad # right_pad \/ m.prefix[1] = m.suffix[1])
        THEN NumberParts(<<>>, s, <<>>)
        ELSE NumberParts(m.prefix, m.num, m.suffix)

\* the unprefixed hex match is taken unless exactly one side is padding
HexAccepted(m) ==
    LET left_pad == is_padding(m.prefix)
        right_pad == is_padding(m.suffix)
    IN  m.matched /\ ~((left_pad /\ ~right_pad) \/ (right_pad /\ ~left_pad))

split_numeric_literals(s) ==
    LET hex == FULL_HEX_RE(s)
        percent == FULL_PERCENT_RE(s)
        unprefixed == FULL_UNPREFIXED_HEX_RE(s)
        thousands == FULL_THOUSANDS_RE(s)
        underscore == FULL_UNDERSCORE_RE(s)
        number == FULL_NUMBER_RE(s)
    IN  IF hex.matched THEN NumberParts(hex.prefix, hex.num, hex.suffix)
        ELSE IF percent.matched THEN SplitUnlessPadded(percent, s)
        ELSE IF HexAccepted(unprefixed)
        THEN NumberParts(unprefixed.prefix, unprefixed.num, unprefixed.suffix)
        ELSE IF thousands.matched THEN SplitUnlessPadded(thousands, s)
        ELSE IF underscore.matched THEN SplitUnlessPadded(underscore, s)
        ELSE IF number.matched THEN SplitUnlessPadded(number, s)
        ELSE NumberParts(<<>>, s, <<>>)

\* the candidate of detect_padding for one pad character
PaddingFor(s, char) ==
    LET left == Len(s) - Len(LStrip(s, {char}))
        right == Len(RStrip(s, {char}))
    IN  [core |-> SubSeq(s, left + 1, right), left_pad |-> SubSeq(s, 1, left),
         right_pad |-> SubSeq(s, right + 1, Len(s)), fill_char |-> <<char>>]

\* detect_padding returning the candidate with the longest pads
DetectPaddingLongest(s) ==
    LET fits(c) == (c.left_pad # <<>> \/ c.right_pad # <<>>) /\ c.core # <<>>
        pads(c) == Len(c.left_pad) + Len(c.right_pad)
        found == {k \in DOMAIN PAD_CHARS : fits(PaddingFor(s, PAD_CHARS[k]))}
    IN  IF found # {}
        THEN PaddingFor(s, PAD_CHARS[CHOOSE k \in found : \A j \in found :
                                        \/ pads(PaddingFor(s, PAD_CHARS[k]))
                                              > pads(PaddingFor(s, PAD_CHARS[j]))
                                        \/ /\ pads(PaddingFor(s, PAD_CHARS[k]))
                                                = pads(PaddingFor(s, PAD_CHARS[j]))
                                           /\ k <= j])
        ELSE [core |-> s, left_pad |-> <<>>, right_pad |-> <<>>, fill_char |-> <<" ">>]

detect_padding(s) ==
    LET found == {k \in DOMAIN PAD_CHARS :
                     LET c == PaddingFor(s, PAD_CHARS[k])
                     IN  (c.left_pad # <<>> \/ c.right_pad # <<>>) /\ c.core # <<>>}
    IN  IF found # {}
        THEN PaddingFor(s, PAD_CHARS[CHOOSE k \in found : \A j \in found : k <= j])
        ELSE [core |-> s, left_pad |-> <<>>, right_pad |-> <<>>, fill_char |-> <<" ">>]

\* what a call returns: a list, or an exception (raised, and no list)
Returned(list) == [raised |-> FALSE, specs |-> list]

Raises == [raised |-> TRUE, specs |-> <<>>]

\* s.isupper()
IsUpper(s) ==
    Range(s) \cap Letters # {} /\ Range(s) \cap Range(LowerLetters) = {}

Flag(cond, text) == IF cond THEN text ELSE <<>>

\* the branch of parse_number_to_spec for 0x... literals
ParseHex(s, prefix, suffix) ==
    LET digits == RemovePrefix(s, <<"0", "x">>)
        is_padded == StartsWith(s, <<"0", "x", "0">>)
    IN  IF ~IntOK(digits, 16) THEN Raises
        ELSE Returned(<<[FormatSpec EXCEPT
                 !.fill = Flag(is_padded, <<"0">>),
                 !.width = IF is_padded THEN Len(s) ELSE 0,
                 !.type_char = <<"x">>, !.sign = <<"#">>,
                 !.prefix = prefix, !.suffix = suffix,
                 !.value_type = "int", !.test_value = Num(IntVal(digits, 16), 1)]>>)

\* the branch for hex digits without 0x
ParseUnprefixedHex(s, prefix, suffix) ==
    LET hex_char == IF IsUpper(s) THEN <<"X">> ELSE <<"x">>
        is_padded == Len(s) > 1 /\ s[1] = "0"
    IN  IF ~IntOK(s, 16) THEN Raises
        ELSE Returned(<<[FormatSpec EXCEPT
                 !.fill = Flag(is_padded, <<"0">>),
                 !.width = IF is_padded THEN Len(s) ELSE 0,
                 !.type_char = hex_char,
                 !.prefix = prefix, !.suffix = suffix,
                 !.value_type = "int", !.test_value = Num(IntVal(s, 16), 1)]>>)

\* the branch for percentages
ParsePercent(s, prefix, suffix, align, fill, width) ==
    LET num == RemoveSuffix(s, <<"%">>)
        decimals == count_decimals(num)
        has_sign == StartsWith(num, <<"+">>)
    IN  IF ~FloatOK(num) THEN Raises
        ELSE Returned(<<[FormatSpec EXCEPT
                 !.align = align, !.fill = fill, !.width = width,
                 !.sign = Flag(has_sign, <<"+">>),
                 !.decimals = <<decimals>>, !.type_char = <<"%">>,
                 !.prefix = prefix, !.suffix = suffix, !.value_type = "float",
                 !.test_value = Num(FloatVal(num).num, FloatVal(num).den * 100)]>>)

\* the zero-padded candidates with the float one first
ZeroPaddedFloatFirst(decimals, int_spec, float_spec) ==
    <<float_spec>> \o (IF decimals = 0 THEN <<int_spec>> ELSE <<>>)

\* lines 171-197: the int candidate only without decimals, then the float one
ZeroPaddedCandidates(decimals, int_spec, float_spec) ==
    (IF decimals = 0 THEN <<int_spec>> ELSE <<>>) \o <<float_spec>>

\* the branch for zero-padded numbers
ParseZeroPadded(s, prefix, suffix) ==
    LET width_val == Len(s)
        decimals == count_decimals(s)
        has_sign == StartsWith(s, <<"+">>)
        value == IF decimals # 0 THEN FloatVal(s) ELSE Num(IntVal(s, 10), 1)
        int_spec == [FormatSpec EXCEPT
                 !.fill = <<"0">>, !.width = width_val, !.type_char = <<"d">>,
                 !.sign = Flag(has_sign, <<"+">>),
                 !.prefix = prefix, !.suffix = suffix,
                 !.value_type = "int", !.test_value = Abs(value)]
        float_spec == [FormatSpec EXCEPT
                 !.fill = <<"0">>, !.width = width_val, !.decimals = <<decimals>>,
                 !.type_char = <<"f">>, !.sign = Flag(has_sign, <<"+">>),
                 !.prefix = prefix, !.suffix = suffix,
                 !.value_type = "float", !.test_value = Abs(value)]
    IN  IF (decimals # 0 /\ ~FloatOK(s)) \/ (decimals = 0 /\ ~IntOK(s, 10)) THEN Raises
        ELSE Returned(ZeroPaddedCandidates(decimals, int_spec, float_spec))

\* Decorated that does not look at the fill
DecoratedButForFill(align, has_comma, has_underscore, sign, fill) ==
    \/ align # <<>>
    \/ has_comma
    \/ has_underscore
    \/ sign # <<>>

\* line 216: a signal that the literal was formatted as an integer
Decorated(align, has_comma, has_underscore, sign, fill) ==
    \/ align # <<>>
    \/ has_comma
    \/ has_underscore
    \/ sign # <<>>
    \/ Strip(fill) # <<>>

\* NumberCandidates with the float candidate always last
NumberCandidatesFloatLast(decimals, grouped, first, float_spec) ==
    first \o <<float_spec>>

\* lines 247-250: the float candidate goes first for a grouped integer
NumberCandidates(decimals, grouped, first, float_spec) ==
    IF decimals = 0 /\ grouped THEN <<float_spec>> \o first ELSE first \o <<float_spec>>

\* the branch for grouped and plain decimal numbers; s is the core, clean is
\* the core without its commas and underscores
ParseNumber(s, clean, prefix, suffix, align, fill, width) ==
    LET has_comma == FullMatch(THOUSANDS_RE, s)
        has_underscore == FullMatch(UNDERSCORE_RE, s)
        decimals == count_decimals(clean)
        has_sign == StartsWith(s, <<"+">>)
        sign == Flag(has_sign, <<"+">>)
        bare_point == "." \in Range(clean) /\ decimals = 0
        clean_for_int == RStrip(clean, {"."})
        parses == /\ FloatOK(clean)
                  /\ bare_point /\ clean_for_int # <<>> => IntOK(clean_for_int, 10)
                  /\ ~bare_point /\ decimals = 0 => IntOK(clean, 10)
        value == IF bare_point
                 THEN (IF clean_for_int # <<>> THEN IntVal(clean_for_int, 10) ELSE 0)
                 ELSE IntVal(clean, 10)
        decorated == Decorated(align, has_comma, has_underscore, sign, fill)
        int_spec == [FormatSpec EXCEPT
                 !.align = align, !.fill = fill, !.width = width,
                 !.comma = has_comma, !.underscore = has_underscore,
                 !.type_char = <<"d">>, !.sign = sign,
                 !.prefix = prefix, !.suffix = suffix,
                 !.value_type = "int", !.test_value = Abs(Num(value, 1))]
        float_spec == [FormatSpec EXCEPT
                 !.align = align, !.fill = fill, !.width = width,
                 !.comma = has_comma, !.underscore = has_underscore,
                 !.decimals = <<decimals>>, !.type_char = <<"f">>, !.sign = sign,
                 !.prefix = prefix, !.suffix = suffix,
                 !.value_type = "float", !.test_value = Abs(FloatVal(clean))]
        first == IF decimals = 0 /\ decorated THEN <<int_spec>> ELSE <<>>
    IN  IF ~parses THEN Raises
        ELSE Returned(NumberCandidates(decimals, has_comma \/ has_underscore, first,
                                       float_spec))

\* parse_number_to_spec trying the plain decimal shape before the zero-padded
ParseNumberBeforeZeroPadded(s, prefix, suffix, align, fill, width) ==
    LET clean == Remove(Remove(s, ","), "_")
    IN  IF FullMatch(HEX_RE, s) THEN ParseHex(s, prefix, suffix)
        ELSE IF FullMatch(UNPREFIXED_HEX_RE, s) THEN ParseUnprefixedHex(s, prefix, suffix)
        ELSE IF FullMatch(PERCENT_RE, s)
        THEN ParsePercent(s, prefix, suffix, align, fill, width)
        ELSE IF FullMatch(NUMBER_RE, clean)
        THEN ParseNumber(s, clean, prefix, suffix, align, fill, width)
        ELSE IF FullMatch(ZERO_PADDED_RE, RemovePrefix(s, <<"+">>))
        THEN ParseZeroPadded(s, prefix, suffix)
        ELSE Returned(<<>>)

parse_number_to_spec(s, prefix, suffix, align, fill, width) ==
    LET clean == Remove(Remove(s, ","), "_")
    IN  IF FullMatch(HEX_RE, s) THEN ParseHex(s, prefix, suffix)
        ELSE IF FullMatch(UNPREFIXED_HEX_RE, s) THEN ParseUnprefixedHex(s, prefix, suffix)
        ELSE IF FullMatch(PERCENT_RE, s)
        THEN ParsePercent(s, prefix, suffix, align, fill, width)
        ELSE IF FullMatch(ZERO_PADDED_RE, RemovePrefix(s, <<"+">>))
        THEN ParseZeroPadded(s, prefix, suffix)
        ELSE IF FullMatch(NUMBER_RE, clean)
        THEN ParseNumber(s, clean, prefix, suffix, align, fill, width)
        ELSE Returned(<<>>)

----------------------------------------------------------------------------
(* src/datetime_detection.py *)

\* "%Y-%m-%dT%H:%M:%S.%f"
IsoFormat ==
    <<"%", "Y", "-", "%", "m", "-", "%", "d", "T",
      "%", "H", ":", "%", "M", ":", "%", "S", ".", "%", "f">>

\* \d{n} then the literal character c
Field(n, c, s, p) == Then(Rep(Digits, n, n, s, p), LAMBDA a : One({c}, s, a))

\* ^\d{4}-\d{2}-\d{2}T\d{2}:\d{2}:\d{2}\.\d+$ with re.match: "$" also
\* matches before a line break that ends the text
ISO_DATETIME_MICROSECOND_RE(s) ==
    \E ends \in {Then(Then(Then(Then(Then(Then(Field(4, "-", s, 1),
                    LAMBDA a : Field(2, "-", s, a)),
                    LAMBDA b : Field(2, "T", s, b)),
                    LAMBDA c : Field(2, ":", s, c)),
                    LAMBDA d : Field(2, ":", s, d)),
                    LAMBDA e : Field(2, ".", s, e)),
                    LAMBDA f : Plus(Digits, s, f))} :
        \E k \in DOMAIN ends :
            \/ ends[k] = Len(s) + 1
            \/ ends[k] = Len(s) /\ s[Len(s)] = "\n"

DaysInMonth(year, month) ==
    IF month = 2
    THEN (IF year % 4 = 0 /\ (year % 100 # 0 \/ year % 400 = 0) THEN 29 ELSE 28)
    ELSE IF month \in {4, 6, 9, 11} THEN 30 ELSE 31

\* datetime.strptime(text, "%Y-%m-%dT%H:%M:%S.%f") does not raise ValueError,
\* for a text of the ISO shape above
StrptimeIsoOK(text) ==
    LET year == DigitsVal(SubSeq(text, 1, 4), 10)
        month == DigitsVal(SubSeq(text, 6, 7), 10)
        day == DigitsVal(SubSeq(text, 9, 10), 10)
        hour == DigitsVal(SubSeq(text, 12, 13), 10)
        minute == DigitsVal(SubSeq(text, 15, 16), 10)
        second == DigitsVal(SubSeq(text, 18, 19), 10)
    IN  /\ text[Len(text)] # "\n"
        /\ Len(text) - 20 <= 6
        /\ year >= 1
        /\ month \in 1..12
        /\ day \in 1..DaysInMonth(year, month)
        /\ hour <= 23 /\ minute <= 59 /\ second <= 59

\* detected is the answer of the external strptime.detect_format(text): a
\* format, or <<>> when it raised ValueError or recognized nothing
detect_datetime_format(text, detected) ==
    IF /\ detected = <<>> \/ ~Contains(detected, <<"%", "f">>)
       /\ ISO_DATETIME_MICROSECOND_RE(text)
       /\ StrptimeIsoOK(text)
    THEN IsoFormat
    ELSE detected

SingleNumericFormats == {"d", "m", "y", "Y", "H", "I", "M", "S", "j"}

is_single_numeric_datetime_format(datetime_format) ==
    datetime_format \in {<<"%", c>> : c \in SingleNumericFormats}

DatetimeSeparators == {" ", "-", "/", ":", "T", "+"}

\* has_datetime_structure that does not take a '+' for a datetime character
StructureWithoutPlus(text) ==
    \E sep \in DatetimeSeparators \ {"+"} : sep \in Range(text)

has_datetime_structure(text) ==
    \E sep \in DatetimeSeparators : sep \in Range(text)

\* a literal word, re.IGNORECASE
Word(w, s, p) ==
    IF /\ p + Len(w) - 1 <= Len(s)
       /\ \A k \in DOMAIN w : ToLower(s[p + k - 1]) = ToLower(w[k])
    THEN <<p + Len(w)>> ELSE <<>>

\* (?:w1|w2|...): the alternatives in order
AnyWord(ws, s, p) ==
    LET matching == {k \in DOMAIN ws : Word(ws[k], s, p) # <<>>}
        before(k) == Cardinality({j \in matching : j <= k})
    IN  [i \in 1..Cardinality(matching) |->
            p + Len(ws[CHOOSE k \in matching : before(k) = i])]

\* \b
Boundary(s, p) ==
    IF (p > 1 /\ s[p - 1] \in WordChars) # (p <= Len(s) /\ s[p] \in WordChars)
    THEN <<p>> ELSE <<>>

MonthNames ==
    <<<<"J", "a", "n", "u", "a", "r", "y">>, <<"F", "e", "b", "r", "u", "a", "r", "y">>,
      <<"M", "a", "r", "c", "h">>, <<"A", "p", "r", "i", "l">>, <<"M", "a", "y">>,
      <<"J", "u", "n", "e">>, <<"J", "u", "l", "y">>, <<"A", "u", "g", "u", "s", "t">>,
      <<"S", "e", "p", "t", "e", "m", "b", "e", "r">>, <<"O", "c", "t", "o", "b", "e", "r">>,
      <<"N", "o", "v", "e", "m", "b", "e", "r">>, <<"D", "e", "c", "e", "m", "b", "e", "r">>>>

DayNames ==
    <<<<"M", "o", "n", "d", "a", "y">>, <<"T", "u", "e", "s", "d", "a", "y">>,
      <<"W", "e", "d", "n", "e", "s", "d", "a", "y">>, <<"T", "h", "u", "r", "s", "d", "a", "y">>,
      <<"F", "r", "i", "d", "a", "y">>, <<"S", "a", "t", "u", "r", "d", "a", "y">>,
      <<"S", "u", "n", "d", "a", "y">>>>

\* Jan|Feb|...|Dec and Mon|Tue|...|Sun: the first three letters of the names
Abbreviations(names) == [k \in DOMAIN names |-> SubSeq(names[k], 1, 3)]

\* \d{1,2}:\d{2}(?::\d{2})?
ClockTime(s, p) ==
    Then(Then(Then(Rep(Digits, 1, 2, s, p),
         LAMBDA a : One({":"}, s, a)),
         LAMBDA b : Rep(Digits, 2, 2, s, b)),
         LAMBDA c : Opt(Then(One({":"}, s, c), LAMBDA d : Rep(Digits, 2, 2, s, d)), c))

\* (?:\s+\d{1,2}:\d{2}(?::\d{2})?)?
OptClockTime(s, p) ==
    Opt(Then(Plus(Whitespace, s, p), LAMBDA a : ClockTime(s, a)), p)

\* (?:\s*[AP]M)?, re.IGNORECASE
OptAmPm(s, p) ==
    Opt(Then(Then(Star(Whitespace, s, p),
             LAMBDA a : One({"A", "P", "a", "p"}, s, a)),
             LAMBDA b : One({"M", "m"}, s, b)), p)

\* \d{4}-\d{2}-\d{2}(?:\s+\d{1,2}:\d{2}(?::\d{2})?)?(?:\s*[AP]M)?
IsoDatePattern(s, p) ==
    Then(Then(Then(Then(Field(4, "-", s, p),
         LAMBDA a : Field(2, "-", s, a)),
         LAMBDA b : Rep(Digits, 2, 2, s, b)),
         LAMBDA c : OptClockTime(s, c)),
         LAMBDA d : OptAmPm(s, d))

\* \d{1,2}/\d{1,2}/\d{2,4}(?:\s+\d{1,2}:\d{2}(?::\d{2})?\s*[AP]M?)?
SlashDatePattern(s, p) ==
    Then(Then(Then(Then(Then(Rep(Digits, 1, 2, s, p),
         LAMBDA a : One({"/"}, s, a)),
         LAMBDA b : Rep(Digits, 1, 2, s, b)),
         LAMBDA c : One({"/"}, s, c)),
         LAMBDA d : Rep(Digits, 2, 4, s, d)),
         LAMBDA e : Opt(Then(Then(Then(Then(Plus(Whitespace, s, e),
                        LAMBDA f : ClockTime(s, f)),
                        LAMBDA g : Star(Whitespace, s, g)),
                        LAMBDA h : One({"A", "P", "a", "p"}, s, h)),
                        LAMBDA i : Opt(One({"M", "m"}, s, i), i)), e))

\* \d{1,2}:\d{2}(?::\d{2})?(?:\s*[AP]M)?
TimePattern(s, p) == Then(ClockTime(s, p), LAMBDA a : OptAmPm(s, a))

\* \b(?:Jan|...|Dec)[a-z]*\s+\d{1,2}(?:,?\s+\d{4})?(?:\s+\d{1,2}:\d{2}(?::\d{2})?)?(?:\s*[AP]M)?
MonthDayPattern(s, p) ==
    Then(Then(Then(Then(Then(Then(Then(Boundary(s, p),
         LAMBDA a : AnyWord(Abbreviations(MonthNames), s, a)),
         LAMBDA b : Star(Letters, s, b)),
         LAMBDA c : Plus(Whitespace, s, c)),
         LAMBDA d : Rep(Digits, 1, 2, s, d)),
         LAMBDA e : Opt(Then(Then(Opt(One({","}, s, e), e),
                        LAMBDA f : Plus(Whitespace, s, f)),
                        LAMBDA g : Rep(Digits, 4, 4, s, g)), e)),
         LAMBDA h : OptClockTime(s, h)),
         LAMBDA i : OptAmPm(s, i))

\* \b(?:Mon|...|Sun)[a-z]*\s+(?:Jan|...|Dec)[a-z]*\s+\d{1,2}(?:\s+\d{4})?(?:\s+\d{1,2}:\d{2}(?::\d{2})?)?(?:\s*[AP]M)?
WeekdayMonthPattern(s, p) ==
    Then(Then(Then(Then(Then(Then(Then(Then(Then(Then(Boundary(s, p),
         LAMBDA a : AnyWord(Abbreviations(DayNames), s, a)),
         LAMBDA b : Star(Letters, s, b)),
         LAMBDA c : Plus(Whitespace, s, c)),
         LAMBDA d : AnyWord(Abbreviations(MonthNames), s, d)),
         LAMBDA e : Star(Letters, s, e)),
         LAMBDA f : Plus(Whitespace, s, f)),
         LAMBDA g : Rep(Digits, 1, 2, s, g)),
         LAMBDA h : Opt(Then(Plus(Whitespace, s, h),
                             LAMBDA i : Rep(Digits, 4, 4, s, i)), h)),
         LAMBDA j : OptClockTime(s, j)),
         LAMBDA k : OptAmPm(s, k))

\* \b(?:January|...|December|Monday|...|Sunday|Jan|...|Dec|Mon|...|Sun)\b
NamePattern(s, p) ==
    Then(Then(Boundary(s, p),
         LAMBDA a : AnyWord(MonthNames \o DayNames \o Abbreviations(MonthNames)
                                \o Abbreviations(DayNames), s, a)),
         LAMBDA b : Boundary(s, b))

\* datetime_patterns[k].fullmatch(text)
DatetimePattern(k, text) ==
    CASE k = 1 -> FullSplit(IsoDatePattern, text)
      [] k = 2 -> FullSplit(SlashDatePattern, text)
      [] k = 3 -> FullSplit(TimePattern, text)
      [] k = 4 -> FullSplit(MonthDayPattern, text)
      [] k = 5 -> FullSplit(WeekdayMonthPattern, text)
      [] k = 6 -> FullSplit(NamePattern, text)

\* the result when nothing is found: (None, text, None, None)
NoDatetime(text) ==
    [prefix |-> <<>>, datetime_part |-> text, suffix |-> <<>>, datetime_format |-> <<>>]

\* lines 62-63: the match of each pattern, in the order of the list
DatetimeMatches(text) ==
    <<DatetimePattern(1, text), DatetimePattern(2, text), DatetimePattern(3, text),
      DatetimePattern(4, text), DatetimePattern(5, text), DatetimePattern(6, text)>>

\* match is DatetimeMatches(text); answers[k] is the answer of
\* strptime.detect_format for the span the k-th pattern captures
split_datetime_literals(text, match, answers) ==
    LET detected(k) == detect_datetime_format(Strip(match[k].num), answers[k])
        found == {k \in 1..6 : match[k].matched /\ detected(k) # <<>>}
    IN  IF found = {} THEN NoDatetime(text)
        ELSE LET k == CHOOSE x \in found : \A y \in found : x <= y
             IN  [prefix |-> match[k].prefix, datetime_part |-> Strip(match[k].num),
                  suffix |-> match[k].suffix, datetime_format |-> detected(k)]

----------------------------------------------------------------------------
(* src/analysis.py *)

as_string_spec(prefix, suffix, align, fill, width) ==
    [FormatSpec EXCEPT !.align = align, !.fill = fill, !.width = width,
                       !.prefix = prefix, !.suffix = suffix,
                       !.value_type = "str", !.test_value = Num(0, 1)]

Tuples(list) == Bind(list, LAMBDA l : [k \in DOMAIN l |-> as_tuple(l[k])])

\* lines 41-50: the direct detection, then the literal-embedded one.  oracle is
\* what the external collaborator answers: oracle.direct for the sample,
\* oracle.spans[k] for the span of the k-th literal pattern
DatetimeStep(smpl, match, oracle) ==
    Bind(detect_datetime_format(smpl, oracle.direct), LAMBDA direct :
        IF direct # <<>>
        THEN [prefix |-> <<>>, datetime_part |-> smpl, suffix |-> <<>>,
              datetime_format |-> direct]
        ELSE split_datetime_literals(smpl, match, oracle.spans))

\* lines 52-70: the datetime candidate, if a format was found
DatetimeResults(found) ==
    IF found.datetime_format # <<>>
    THEN <<as_tuple([FormatSpec EXCEPT
               !.value_type = "datetime", !.datetime_format = found.datetime_format,
               !.prefix = found.prefix, !.suffix = found.suffix,
               !.test_value = Num(0, 1)])>>
    ELSE <<>>

\* a step of the numeric path: a list to merge, a list to return at once, or
\* an exception
Outcome(raises, early, list) == [raised |-> raises, early |-> early, results |-> list]

\* LiteralPath without the string candidate of lines 76-77
LiteralPathWithoutString(np) ==
    Bind(parse_number_to_spec(np.num, np.prefix, np.suffix, <<>>, <<>>, 0), LAMBDA parsed :
        IF parsed.raised THEN Outcome(TRUE, FALSE, <<>>)
        ELSE Outcome(FALSE, FALSE, Tuples(parsed.specs)))

\* lines 74-77: a literal prefix or suffix was split off
LiteralPath(np) ==
    Bind(parse_number_to_spec(np.num, np.prefix, np.suffix, <<>>, <<>>, 0), LAMBDA parsed :
        IF parsed.raised THEN Outcome(TRUE, FALSE, <<>>)
        ELSE Outcome(FALSE, FALSE,
                 Tuples(Append(parsed.specs,
                               as_string_spec(np.prefix, np.suffix, <<>>, <<>>, 0)))))

\* lines 81-86: pads on both sides of unequal length
UnequalPads(pad) ==
    pad.left_pad # <<>> /\ pad.right_pad # <<>> /\ Len(pad.left_pad) # Len(pad.right_pad)

\* Alignment that names the side of the pad, not the side of the value
AlignmentToPadSide(pad) ==
    IF pad.left_pad # <<>> /\ pad.right_pad # <<>> THEN <<"^">>
    ELSE IF pad.left_pad # <<>> THEN <<"<">>
    ELSE IF pad.right_pad # <<>> THEN <<">">>
    ELSE <<>>

\* lines 81-92: the alignment the pads show
Alignment(pad) ==
    IF pad.left_pad # <<>> /\ pad.right_pad # <<>> THEN <<"^">>
    ELSE IF pad.left_pad # <<>> THEN <<">">>
    ELSE IF pad.right_pad # <<>> THEN <<"<">>
    ELSE <<>>

\* lines 79-103: nothing was split off; pad is what detect_padding found
PaddingPath(smpl, pad) ==
    LET align == Alignment(pad)
        padded == pad.left_pad # <<>> \/ pad.right_pad # <<>>
        width == IF padded THEN Len(smpl) ELSE 0
        fallback == IF padded /\ (align # <<>> \/ pad.fill_char # <<" ">>)
                    THEN <<as_string_spec(<<>>, <<>>, align, pad.fill_char, width)>>
                    ELSE <<>>
    IN  IF UnequalPads(pad)
        THEN Outcome(FALSE, TRUE,
                 <<as_tuple(as_string_spec(pad.left_pad, pad.right_pad, <<>>, <<>>, 0))>>)
        ELSE Bind(parse_number_to_spec(pad.core, <<>>, <<>>, align, pad.fill_char, width),
                  LAMBDA parsed :
                      IF parsed.raised THEN Outcome(TRUE, FALSE, <<>>)
                      ELSE Outcome(FALSE, FALSE, Tuples(parsed.specs \o fallback)))

\* line 79: padding is looked for only when nothing was split off
Unpadded == [core |-> <<>>, left_pad |-> <<>>, right_pad |-> <<>>, fill_char |-> <<>>]

PaddingOf(smpl, np) ==
    IF np.prefix # <<>> \/ np.suffix # <<>> THEN Unpadded ELSE detect_padding(smpl)

\* lines 72-103: np is what split_numeric_literals returned, pad is PaddingOf
NumericPath(smpl, np, pad) ==
    IF np.prefix # <<>> \/ np.suffix # <<>> THEN LiteralPath(np) ELSE PaddingPath(smpl, pad)

\* Merge with the datetime candidates extended on both sides of the numeric ones
MergeOnBothSides(smpl, datetime_results, is_single_numeric, numeric_results) ==
    datetime_results \o numeric_results \o datetime_results

\* lines 105-116
Merge(smpl, datetime_results, is_single_numeric, numeric_results) ==
    IF datetime_results # <<>> /\ ~is_single_numeric
    THEN (IF has_datetime_structure(smpl)
          THEN datetime_results \o numeric_results
          ELSE numeric_results \o datetime_results)
    ELSE IF datetime_results # <<>> /\ is_single_numeric
    THEN numeric_results \o datetime_results
    ELSE numeric_results

\* lines 105-118, and the return of line 86: what the call returns
Finish(smpl, found, numeric) ==
    LET is_single_numeric == /\ found.datetime_format # <<>>
                             /\ is_single_numeric_datetime_format(found.datetime_format)
    IN  IF numeric.raised THEN [raised |-> TRUE, results |-> <<>>]
        ELSE IF numeric.early THEN [raised |-> FALSE, results |-> numeric.results]
        ELSE [raised |-> FALSE,
              results |-> Bind(DatetimeResults(found), LAMBDA datetime_results :
                              Merge(smpl, datetime_results, is_single_numeric,
                                    numeric.results))]

\* what get_test_value returns: a value, or an exception
Value(v) == [raised |-> FALSE, value |-> v]

ValueError == [raised |-> TRUE, value |-> <<>>]

\* datetime(2030, 1, 24, 5, 45, 13)
Placeholder ==
    [year |-> 2030, month |-> 1, day |-> 24, hour |-> 5, minute |-> 45, second |-> 13]

\* datetime.strptime(text, format) is called and returns: accepted tells
\* whether it accepts the text under a format the collaborator answered; the
\* ISO format that detect_datetime_format found by itself has been tried there
Strptime(format, answered, accepted) ==
    format # <<>> /\ (format \in answered => accepted)

\* lines 123-138: parses.direct and parses.span are what strptime does with
\* the formats the collaborator answered
DatetimeValue(input_str, match, oracle, parses) ==
    Bind(detect_datetime_format(input_str, oracle.direct), LAMBDA direct :
        IF Strptime(direct, {oracle.direct}, parses.direct)
        THEN Value([strptime |-> input_str, format |-> direct])
        ELSE Bind(split_datetime_literals(input_str, match, oracle.spans), LAMBDA found :
                 IF Strptime(found.datetime_format, Range(oracle.spans), parses.span)
                 THEN Value([strptime |-> found.datetime_part,
                             format |-> found.datetime_format])
                 ELSE Value(Placeholder)))

\* lines 140-146: the literal text and the padding are taken off
IsolatedCore(input_str) ==
    Bind(split_numeric_literals(input_str), LAMBDA np :
        detect_padding(IF np.prefix # <<>> \/ np.suffix # <<>> THEN np.num ELSE input_str).core)

\* a digit for str.isdigit() that is no decimal digit for int()
SuperscriptTwo == "²"

\* text.isdigit()
IsDigit(text) ==
    text # <<>> /\ \A k \in DOMAIN text : text[k] \in Digits \cup {SuperscriptTwo}

\* lines 152 and 161
CleanNumber(core) == RemovePrefix(Remove(Remove(core, ","), "_"), <<"+">>)

\* lines 151-159
IntValue(core) ==
    Bind(CleanNumber(core), LAMBDA clean :
        IF clean # <<>> /\ IsDigit(RemovePrefix(clean, <<"-">>))
        THEN (IF IntOK(clean, 10) THEN Value(Num(IntVal(clean, 10), 1)) ELSE ValueError)
        ELSE IF FullMatch(HEX_RE, core)
        THEN (IF IntOK(RemovePrefix(core, <<"0", "x">>), 16)
              THEN Value(Num(IntVal(RemovePrefix(core, <<"0", "x">>), 16), 1))
              ELSE ValueError)
        ELSE IF FullMatch(UNPREFIXED_HEX_RE, core)
        THEN (IF IntOK(core, 16) THEN Value(Num(IntVal(core, 16), 1)) ELSE ValueError)
        ELSE Value(Num(0, 1)))

\* lines 161-169
FloatValue(core) ==
    Bind(CleanNumber(core), LAMBDA clean :
    Bind(FullMatch(PERCENT_RE, core), LAMBDA percent :
    Bind(IF percent THEN RemoveSuffix(clean, <<"%">>) ELSE clean, LAMBDA number :
        IF number # <<>> /\ FullMatch(NUMBER_RE, number)
        THEN (IF ~FloatOK(number) THEN ValueError
              ELSE IF percent
              THEN Value(Num(FloatVal(number).num, FloatVal(number).den * 100))
              ELSE Value(FloatVal(number)))
        ELSE Value(Num(0, 1)))))

get_test_value(input_str, type_name, match, oracle, parses) ==
    IF type_name = "datetime" THEN DatetimeValue(input_str, match, oracle, parses)
    ELSE Bind(IsolatedCore(input_str), LAMBDA core :
             IF type_name = "str" THEN Value(core)
             ELSE IF type_name = "int" THEN IntValue(core)
             ELSE FloatValue(core))

----------------------------------------------------------------------------
(* src/average_usage.py *)

\* range(0, 24, 2)
TIME_WINDOWS == {2 * k : k \in 0..11}

\* range(7)
Days == 0..6

\* a value of a row: a string, None (csv.DictReader fills a short line with
\* it), or no such key
Str(text) == [key |-> TRUE, str |-> TRUE, text |-> text]

None == [key |-> TRUE, str |-> FALSE, text |-> <<>>]

Missing == [key |-> FALSE, str |-> FALSE, text |-> <<>>]

\* the directives of _strptime: %m and %I, %d, %M, %p
MonthOrHour(s, p) ==
    Then(One({"1"}, s, p), LAMBDA a : One({"0", "1", "2"}, s, a))
        \o Then(One({"0"}, s, p), LAMBDA a : One(Digits \ {"0"}, s, a))
        \o One(Digits \ {"0"}, s, p)

DayOfMonth(s, p) ==
    Then(One({"3"}, s, p), LAMBDA a : One({"0", "1"}, s, a))
        \o Then(One({"1", "2"}, s, p), LAMBDA a : One(Digits, s, a))
        \o Then(One({"0"}, s, p), LAMBDA a : One(Digits \ {"0"}, s, a))
        \o One(Digits \ {"0"}, s, p)
        \o Then(One({" "}, s, p), LAMBDA a : One(Digits \ {"0"}, s, a))

Minute(s, p) ==
    Then(One({"0", "1", "2", "3", "4", "5"}, s, p), LAMBDA a : One(Digits, s, a))
        \o One(Digits, s, p)

AmPm(s, p) == Then(One({"a", "A", "p", "P"}, s, p), LAMBDA a : One({"m", "M"}, s, a))

\* the regular expression of DATE_FORMAT + " " + TIME_FORMAT:
\* "%m/%d/%Y %I:%M %p", a space of the format standing for \s+
DateTimeRe(s, p) ==
    Then(Then(Then(Then(Then(Then(Then(Then(Then(Then(MonthOrHour(s, p),
         LAMBDA a : One({"/"}, s, a)),
         LAMBDA b : DayOfMonth(s, b)),
         LAMBDA c : One({"/"}, s, c)),
         LAMBDA d : Rep(Digits, 4, 4, s, d)),
         LAMBDA e : Plus(Whitespace, s, e)),
         LAMBDA f : MonthOrHour(s, f)),
         LAMBDA g : One({":"}, s, g)),
         LAMBDA h : Minute(s, h)),
         LAMBDA i : Plus(Whitespace, s, i)),
         LAMBDA j : AmPm(s, j))

\* date.weekday(): 0 is Monday
Weekday(year, month, day) ==
    LET y == IF month < 3 THEN year - 1 ELSE year
        shift == <<0, 3, 2, 5, 0, 3, 5, 1, 4, 6, 2, 4>>[month]
        sunday0 == (y + (y \div 4) - (y \div 100) + (y \div 400) + shift + day) % 7
    IN  (sunday0 + 6) % 7

\* the fields of a text that DateTimeRe matches: the separators delimit them
DateTimeFields(text) ==
    LET slash1 == Run(Digits, text, 1) + 1
        slash2 == slash1 + 1 + Run(Digits \cup {" "}, text, slash1 + 1)
        hour0 == slash2 + 5 + Run(Whitespace, text, slash2 + 5)
        colon == hour0 + Run(Digits, text, hour0)
        hour12 == DigitsVal(Slice(text, hour0, colon), 10)
    IN  [month |-> DigitsVal(Slice(text, 1, slash1), 10),
         day |-> DigitsVal(Strip(Slice(text, slash1 + 1, slash2)), 10),
         year |-> DigitsVal(Slice(text, slash2 + 1, slash2 + 5), 10),
         hour |-> (hour12 % 12) + (IF ToLower(text[Len(text) - 1]) = "p" THEN 12 ELSE 0)]

\* datetime.strptime(text, "%m/%d/%Y %I:%M %p"): the weekday and the hour, or
\* ValueError (no match, unconverted data, a day or year out of range)
StrptimeRow(text) ==
    Bind(DateTimeRe(text, 1), LAMBDA ends :
        IF ends = <<>> \/ ends[1] # Len(text) + 1 THEN [ok |-> FALSE, weekday |-> 0, hour |-> 0]
        ELSE Bind(DateTimeFields(text), LAMBDA f :
                 IF f.year < 1 \/ f.day > DaysInMonth(f.year, f.month)
                 THEN [ok |-> FALSE, weekday |-> 0, hour |-> 0]
                 ELSE [ok |-> TRUE, weekday |-> Weekday(f.year, f.month, f.day),
                       hour |-> f.hour]))

\* lines 39-51 without the counter: the tuple, None for the caught ValueError
\* and KeyError, or the TypeError that is not caught
Reading(day, window, consumption) ==
    [result |-> "tuple", day |-> day, window |-> window, consumption |-> consumption]

NoReading(how) == [result |-> how, day |-> 0, window |-> 0, consumption |-> Num(0, 1)]

ParseRow(row) ==
    IF ~row.Date.key THEN NoReading("None")
    ELSE IF ~row.Date.str THEN NoReading("TypeError")
    ELSE IF ~row.StartTime.key THEN NoReading("None")
    ELSE IF ~row.StartTime.str THEN NoReading("TypeError")
    ELSE Bind(StrptimeRow(row.Date.text \o <<" ">> \o row.StartTime.text), LAMBDA date :
             IF ~date.ok THEN NoReading("None")
             ELSE IF ~row.Consumption.key THEN NoReading("None")
             ELSE IF ~row.Consumption.str THEN NoReading("TypeError")
             ELSE IF ~FloatOK(row.Consumption.text) THEN NoReading("None")
             ELSE Reading(date.weekday, (date.hour \div 2) * 2,
                          FloatVal(row.Consumption.text)))

\* lines 21-26: __init__
EmptyUsage == [day \in Days |-> [hour \in TIME_WINDOWS |-> <<>>]]

\* the analyzer while process_csv_data runs, and the rows it has handled
Analyzer(weekly, malformed, crash, handled) ==
    [weekly_usage |-> weekly, malformed_rows |-> malformed, crashed |-> crash,
     rows |-> handled]

\* lines 60-63 for one row, with the counting of process_row (lines 49-51);
\* parsed is ParseRow(row)
ProcessRow(self, row, parsed) ==
    IF parsed.result = "tuple"
    THEN Analyzer([self.weekly_usage EXCEPT ![parsed.day][parsed.window] =
                       Append(@, parsed.consumption)],
                  self.malformed_rows, FALSE, Append(self.rows, row))
    ELSE IF parsed.result = "None"
    THEN Analyzer(self.weekly_usage, self.malformed_rows + 1, FALSE, Append(self.rows, row))
    ELSE Analyzer(self.weekly_usage, self.malformed_rows, TRUE, Append(self.rows, row))

\* process_csv_data: row after row, until an exception leaves the loop
process_csv_data(self, csv_data) ==
    LET after[k \in 0..Len(csv_data)] ==
            IF k = 0 THEN self
            ELSE Bind(after[k - 1], LAMBDA before :
                     IF before.crashed THEN before
                     ELSE ProcessRow(before, csv_data[k], ParseRow(csv_data[k])))
    IN  after[Len(csv_data)]

\* sum(values), the values being fractions
RECURSIVE Sum(_)
Sum(values) ==
    IF values = <<>> THEN Num(0, 1)
    ELSE Bind(Sum(Tail(values)), LAMBDA rest :
             IF rest.den % values[1].den = 0
             THEN Num(values[1].num * (rest.den \div values[1].den) + rest.num, rest.den)
             ELSE IF values[1].den % rest.den = 0
             THEN Num(values[1].num + rest.num * (values[1].den \div rest.den),
                      values[1].den)
             ELSE Num(values[1].num * rest.den + rest.num * values[1].den,
                      values[1].den * rest.den))

\* calculate_averages that returns the totals
AveragesAsTotals(weekly) ==
    [day \in Days |-> [window \in TIME_WINDOWS |-> Sum(weekly[day][window])]]

\* lines 72-83
calculate_averages(weekly) ==
    [day \in Days |-> [window \in TIME_WINDOWS |->
        IF weekly[day][window] # <<>>
        THEN Num(Sum(weekly[day][window]).num,
                 Sum(weekly[day][window]).den * Len(weekly[day][window]))
        ELSE Num(0, 1)]]

----------------------------------------------------------------------------
(* The inputs *)

\* the rows handed to one analyzer, over all calls
MaxRows == 3

Row(date, start_time, consumption) ==
    [Date |-> date, StartTime |-> start_time, Consumption |-> consumption]

Rows ==
    {\* Monday, window 0
     Row(Str(<<"0", "9", "/", "2", "9", "/", "2", "0", "2", "5">>),
         Str(<<"1", "2", ":", "0", "5", " ", "A", "M">>),
         Str(<<"1", ".", "0">>)),
     \* Monday, window 0
     Row(Str(<<"0", "9", "/", "2", "9", "/", "2", "0", "2", "5">>),
         Str(<<"0", "1", ":", "1", "5", " ", "A", "M">>),
         Str(<<"3", ".", "0">>)),
     \* Tuesday, window 22
     Row(Str(<<"0", "9", "/", "3", "0", "/", "2", "0", "2", "5">>),
         Str(<<"1", "0", ":", "3", "0", " ", "P", "M">>),
         Str(<<"5", ".", "0">>)),
     \* Sunday, window 14, in the lenient forms
     Row(Str(<<"9", "/", "7", "/", "2", "0", "2", "5">>),
         Str(<<"3", ":", "5", "9", " ", "p", "m">>),
         Str(<<" ", "2", ".", "5">>)),
     \* bad date
     Row(Str(<<"B", "a", "d", "D", "a", "t", "e">>),
         Str(<<"0", "1", ":", "1", "5", " ", "A", "M">>),
         Str(<<"1", ".", "0">>)),
     \* no such day
     Row(Str(<<"0", "2", "/", "3", "0", "/", "2", "0", "2", "5">>),
         Str(<<"0", "1", ":", "1", "5", " ", "A", "M">>),
         Str(<<"1", ".", "0">>)),
     \* bad time
     Row(Str(<<"0", "9", "/", "2", "9", "/", "2", "0", "2", "5">>),
         Str(<<"0", "1", ":", "1", "5">>),
         Str(<<"1", ".", "0">>)),
     \* bad consumption
     Row(Str(<<"0", "9", "/", "2", "9", "/", "2", "0", "2", "5">>),
         Str(<<"0", "1", ":", "1", "5", " ", "A", "M">>),
         Str(<<>>)),
     \* consumption missing from a short line
     Row(Str(<<"0", "9", "/", "2", "9", "/", "2", "0", "2", "5">>),
         Str(<<"0", "1", ":", "1", "5", " ", "A", "M">>),
         None),
     \* no Date key
     Row(Missing,
         Str(<<"0", "1", ":", "1", "5", " ", "A", "M">>),
         Str(<<"1", ".", "0">>)),
     \* no Consumption key
     Row(Str(<<"0", "9", "/", "2", "9", "/", "2", "0", "2", "5">>),
         Str(<<"0", "1", ":", "1", "5", " ", "A", "M">>),
         Missing)}

\* the lists process_csv_data is called with
CsvData == UNION {[1..n -> Rows] : n \in 1..2}


\* the longest sample built from Alphabet
MaxLen == 3

\* one character of each kind the code tells apart: a zero, another digit, the
\* signs, the decimal point, the grouping characters, two pad characters, the
\* percent sign and a hex letter
Alphabet == {"0", "1", "+", "-", ".", ",", "_", " ", "%", "a"}

Strings(n) == UNION {[1..k -> Alphabet] : k \in 0..n}

\* longer samples: a numeric or datetime core between two literal or pad texts
Cores ==
    {<<"7">>, <<"+", "0", "0", "7">>, <<"0", "1", ".", "5">>, <<"1", "2", "%">>,
     <<"1", ",", "2", "3", "4">>, <<"+", "1", "_", "2", "3", "4">>,
     <<"1", ",", "2", "3", "4", ".", "5", "0">>,
     <<"0", "x", "0", "A">>, <<"F", "0">>, <<"1", "2", ":", "3", "0">>,
     <<"1", "/", "2">>, <<"7", "T">>,
     <<"2", "0", "2", "4", "-", "0", "1", "-", "1", "5">>, <<"M", "a", "y">>,
     <<"2", "0", "2", "4", "-", "0", "1", "-", "1", "5", "T",
       "1", "0", ":", "3", "0", ":", "0", "0", ".", "5">>}

Lefts == {<<>>, <<" ">>, <<"*">>, <<"*", "*">>, <<"x">>}

Rights == {<<>>, <<" ">>, <<"*">>, <<"_", "_">>, <<" ", "z">>}

Samples == Strings(MaxLen) \cup {l \o c \o r : l \in Lefts, c \in Cores, r \in Rights}

\* the formats the external collaborator may answer for a span; <<>> is "not
\* recognized"
Formats ==
    {<<"%", "d">>, <<"%", "H", ":", "%", "M">>,
     <<"%", "Y", "-", "%", "m", "-", "%", "d">>, IsoFormat}

\* and for the whole sample: also every format of one numeric directive
SampleFormats == Formats \cup {<<"%", c>> : c \in SingleNumericFormats}

NoAnswers == [k \in 1..6 |-> <<>>]

\* The answers of the collaborator that matter to one run: an answer for the
\* sample, or no answer for it and one for the span of a pattern that matches.
\* The collaborator is a function of the text, so a span that equals a text
\* already answered "not recognized" (the sample, an earlier span) is skipped.
Oracles(smpl, match) ==
    LET span(k) == Strip(match[k].num)
        fresh(k) == /\ match[k].matched
                    /\ span(k) # smpl
                    /\ \A j \in 1..(k - 1) : match[j].matched => span(j) # span(k)
    IN  {[direct |-> a, spans |-> NoAnswers] : a \in SampleFormats \cup {<<>>}}
        \cup {[direct |-> <<>>, spans |-> [NoAnswers EXCEPT ![k] = f]] :
                 k \in {j \in 1..6 : fresh(j)}, f \in Formats}

\* the keyword arguments parse_number_to_spec is called with
Aligns == {<<>>, <<"<">>, <<">">>, <<"^">>}

Fills == {<<>>, <<" ">>, <<"_">>, <<"*">>}

ParseArgs ==
    {[prefix |-> <<>>, suffix |-> <<>>, align |-> a, fill |-> f,
      width |-> IF a = <<>> /\ f \in {<<>>, <<" ">>} THEN 0 ELSE 9] :
         a \in Aligns, f \in Fills}
    \cup {[prefix |-> <<"$">>, suffix |-> <<" ", "z">>, align |-> <<>>, fill |-> <<>>,
           width |-> 0]}

----------------------------------------------------------------------------
(* The state machine: an input, then one operation applied to it *)

\* before any operation: no result yet, and the analyzer as __init__ leaves it
Fresh ==
    /\ op = "none"
    /\ args = <<>>
    /\ raised = FALSE
    /\ results = <<>>
    /\ dt = NoDatetime(<<>>)
    /\ parts = NumberParts(<<>>, <<>>, <<>>)
    /\ padding = Unpadded
    /\ specs = <<>>
    /\ test_value = <<>>
    /\ weekly_usage = EmptyUsage
    /\ malformed_rows = 0
    /\ averages = <<>>
    /\ rows = <<>>
    /\ crashed = FALSE

Init ==
    /\ sample \in Samples
    /\ Fresh

\* analyze_number_format(sample): the numeric path does not read what the
\* datetime step found, so it is computed once for all answers of the oracle
Analyze ==
    /\ op = "none"
    /\ \E np \in {split_numeric_literals(sample)} :
       \E pad \in {PaddingOf(sample, np)} :
       \E numeric \in {NumericPath(sample, np, pad)} :
       \E match \in {DatetimeMatches(sample)} :
       \E oracle \in Oracles(sample, match) :
       \E found \in {DatetimeStep(sample, match, oracle)} :
       \E r \in {Finish(sample, found, numeric)} :
          /\ args' = oracle
          /\ raised' = r.raised
          /\ results' = r.results
          /\ dt' = found
          /\ parts' = np
          /\ padding' = pad
    /\ op' = "analyze"
    /\ UNCHANGED <<sample, specs, test_value, usage>>

\* split_numeric_literals(sample)
Split ==
    /\ op = "none"
    /\ op' = "split"
    /\ parts' = split_numeric_literals(sample)
    /\ UNCHANGED <<sample, args, raised, results, dt, padding, specs, test_value, usage>>

\* the samples of detect_padding: also every short text of pad characters
\* around a digit
PadSamples == Samples \cup UNION {[1..k -> {" ", "_", "*", "1"}] : k \in 0..MaxLen}

PadInit ==
    /\ sample \in PadSamples
    /\ Fresh

\* detect_padding(sample)
Pad ==
    /\ op = "none"
    /\ op' = "pad"
    /\ padding' = detect_padding(sample)
    /\ UNCHANGED <<sample, args, raised, results, dt, parts, specs, test_value, usage>>

\* parse_number_to_spec(sample, **args)
Parse ==
    /\ op = "none"
    /\ \E a \in ParseArgs :
       \E r \in {parse_number_to_spec(sample, a.prefix, a.suffix, a.align, a.fill,
                                      a.width)} :
          /\ args' = a
          /\ raised' = r.raised
          /\ specs' = r.specs
    /\ op' = "parse"
    /\ UNCHANGED <<sample, results, dt, parts, padding, test_value, usage>>

\* the fields a FormatSpec is built with
BuildFills == {<<>>, <<" ">>, <<"0">>, <<"*">>}

BuildSpecs ==
    {[FormatSpec EXCEPT !.align = a, !.fill = f, !.width = w, !.comma = c,
                        !.underscore = u, !.decimals = d, !.type_char = t,
                        !.sign = s, !.prefix = p, !.suffix = <<"!">>,
                        !.value_type = k,
                        !.datetime_format = IF k = "datetime" THEN <<"%", "d">> ELSE <<>>] :
         a \in Aligns, f \in BuildFills, w \in {0, 9}, c \in BOOLEAN, u \in BOOLEAN,
         d \in {<<>>, <<2>>}, t \in {<<>>, <<"d">>, <<"f">>},
         s \in {<<>>, <<"+">>, <<"#">>}, p \in {<<>>, <<"$">>},
         k \in {"int", "datetime"}}

\* no sample: a FormatSpec is built from its fields alone
BuildInit ==
    /\ sample = <<>>
    /\ Fresh

\* FormatSpec(**fields).as_tuple()
Build ==
    /\ op = "none"
    /\ \E f \in BuildSpecs :
          /\ specs' = <<f>>
          /\ results' = <<as_tuple(f)>>
    /\ op' = "build"
    /\ UNCHANGED <<sample, args, raised, dt, parts, padding, test_value, usage>>

\* the samples of get_test_value: also digits that are not decimal digits
TestSamples ==
    Samples \cup {l \o c \o r : l \in {<<>>, <<"*">>, <<"-">>}, c \in {<<SuperscriptTwo>>},
                                 r \in {<<>>, <<"1">>, <<" ", "z">>}}

\* the answers of the collaborator that matter to get_test_value, which asks
\* about the spans also after an answer for the sample that strptime rejects
TestOracles(smpl, match) ==
    LET span(k) == Strip(match[k].num)
        fresh(k) == /\ match[k].matched
                    /\ span(k) # smpl
                    /\ \A j \in 1..(k - 1) : match[j].matched => span(j) # span(k)
    IN  {[direct |-> a, spans |-> NoAnswers] : a \in Formats \cup {<<>>}}
        \cup {[direct |-> a, spans |-> [NoAnswers EXCEPT ![k] = f]] :
                 a \in {<<>>, <<"%", "d">>}, k \in {j \in 1..6 : fresh(j)}, f \in Formats}

\* what strptime does with the answered formats
Acceptances(oracle) ==
    {[direct |-> d, span |-> s] :
         d \in IF oracle.direct # <<>> THEN BOOLEAN ELSE {FALSE},
         s \in IF oracle.spans # NoAnswers THEN BOOLEAN ELSE {FALSE}}

TestValueInit ==
    /\ sample \in TestSamples
    /\ Fresh

\* get_test_value(sample, "datetime")
DatetimeTestValue ==
    /\ op = "none"
    /\ \E match \in {DatetimeMatches(sample)} :
       \E oracle \in TestOracles(sample, match) :
       \E parses \in Acceptances(oracle) :
       \E r \in {get_test_value(sample, "datetime", match, oracle, parses)} :
          /\ args' = [type_name |-> "datetime", oracle |-> oracle, parses |-> parses]
          /\ raised' = r.raised
          /\ test_value' = r.value
    /\ op' = "test_value"
    /\ UNCHANGED <<sample, results, dt, parts, padding, specs, usage>>

\* get_test_value(sample, type_name) for the other kinds
NumericTestValue ==
    /\ op = "none"
    /\ \E type_name \in {"str", "int", "float"} :
       \E r \in {get_test_value(sample, type_name, <<>>, <<>>, <<>>)} :
          /\ args' = [type_name |-> type_name]
          /\ raised' = r.raised
          /\ test_value' = r.value
    /\ op' = "test_value"
    /\ UNCHANGED <<sample, results, dt, parts, padding, specs, usage>>

\* one analyzer, and no sample
UsageInit ==
    /\ sample = <<>>
    /\ Fresh

\* analyzer.process_csv_data(csv_data)
ProcessCsvData ==
    /\ ~crashed
    /\ \E csv_data \in CsvData :
          /\ Len(rows) + Len(csv_data) <= MaxRows
          /\ \E self \in {process_csv_data(
                              Analyzer(weekly_usage, malformed_rows, FALSE, rows), csv_data)} :
                /\ weekly_usage' = self.weekly_usage
                /\ malformed_rows' = self.malformed_rows
                /\ crashed' = self.crashed
                /\ rows' = self.rows
    /\ UNCHANGED <<sample, guess, averages>>

\* analyzer.calculate_averages()
CalculateAverages ==
    /\ ~crashed
    /\ averages' = calculate_averages(weekly_usage)
    /\ UNCHANGED <<sample, guess, weekly_usage, malformed_rows, rows, crashed>>

Next == Analyze

Spec == Init /\ [][Next]_vars

SplitSpec == Init /\ [][Split]_vars

PadSpec == PadInit /\ [][Pad]_vars

ParseSpec == Init /\ [][Parse]_vars

BuildSpec == BuildInit /\ [][Build]_vars

UsageSpec == UsageInit /\ [][ProcessCsvData \/ CalculateAverages]_vars

TestValueSpec == TestValueInit /\ [][DatetimeTestValue \/ NumericTestValue]_vars

----------------------------------------------------------------------------
(* analyze_number_format: the properties of its result *)

Returns == op = "analyze" /\ ~raised

IsKind(kind, k) == results[k][1] = kind

Entries(kind) == {k \in DOMAIN results : IsKind(kind, k)}

Others(kind) == DOMAIN results \ Entries(kind)

\* the numeric path split a literal prefix or suffix off
SplitOff == parts.prefix # <<>> \/ parts.suffix # <<>>

\* the numeric path found pads around the unsplit sample
Padded == padding.left_pad # <<>> \/ padding.right_pad # <<>>

\* the parser finds no shape in the core of the sample
Shapeless ==
    LET core == IF SplitOff THEN parts.num ELSE padding.core
        parsed == parse_number_to_spec(core, <<>>, <<>>, <<>>, <<>>, 0)
    IN  ~parsed.raised /\ parsed.specs = <<>>

\* C1: analyze_number_format returns a list and never raises, for every sample
\* and every answer of the datetime collaborator.
C1_NeverRaises == op = "analyze" => ~raised

\* C2: the returned list never holds two entries with the same kind and the
\* same rendered text.
C2_NoDuplicates ==
    Returns => \A i, j \in DOMAIN results : i # j => results[i] # results[j]

\* an int, a float, a string and a datetime candidate in one result
C2_Witness == Returns /\ Len(results) = 4

\* C3: when a datetime format was found next to numeric or string candidates,
\* the numeric and string candidates come first if the format is one numeric
\* directive; otherwise the datetime candidate comes first if the sample holds
\* a space, '-', '/', ':', 'T' or '+'; otherwise the numeric ones come first.
C3_MergeOrder ==
    LET single == dt.datetime_format \in
                      {<<"%", c>> : c \in {"d", "m", "y", "Y", "H", "I", "M", "S", "j"}}
        structured == Range(sample) \cap {" ", "-", "/", ":", "T", "+"} # {}
        datetime_first == \A i \in Entries("datetime"), j \in Others("datetime") : i < j
        numeric_first == \A i \in Entries("datetime"), j \in Others("datetime") : j < i
    IN  Returns /\ Entries("datetime") # {} /\ Others("datetime") # {}
        => IF single THEN numeric_first
           ELSE IF structured THEN datetime_first
           ELSE numeric_first

\* a '+' is the only datetime character of the sample, and the datetime
\* candidate leads two numeric ones
C3_Witness ==
    /\ Returns
    /\ Len(results) >= 3
    /\ IsKind("datetime", 1)
    /\ Range(sample) \cap {" ", "-", "/", ":", "T", "+"} = {"+"}

\* C4: whenever the datetime detection, direct or literal-embedded, finds a
\* format, the returned list holds exactly one datetime candidate, also for a
\* sample padded on both sides with runs of unequal length.
C4_DatetimeKept ==
    Returns /\ dt.datetime_format # <<>> => Cardinality(Entries("datetime")) = 1

\* C5 as stated: a string candidate is appended whenever a prefix or suffix was
\* split off, or the parser found no shape for the core, or padding was
\* detected with an alignment or a fill other than a space.
C5_StringWheneverShapeless ==
    Returns /\ (SplitOff \/ Shapeless \/ Padded) => Entries("str") # {}

\* C5: a string candidate is appended, after the int and float candidates,
\* whenever a prefix or suffix was split off or padding was detected; a sample
\* with neither gets no string candidate, whatever the parser finds.
C5_StringFallback ==
    Returns =>
        /\ SplitOff \/ Padded => Cardinality(Entries("str")) = 1
        /\ ~SplitOff /\ ~Padded => Entries("str") = {}
        /\ \A i \in Entries("str"), j \in Entries("int") \cup Entries("float") : j < i

\* a split-off prefix, and the string candidate after a numeric one
C5_Witness ==
    /\ Returns
    /\ parts.prefix # <<>>
    /\ Entries("str") # {}
    /\ Entries("int") \cup Entries("float") # {}

----------------------------------------------------------------------------
(* split_numeric_literals: the pad test *)

\* the percentage, grouped or plain match whose groups the pad test decides on,
\* if the sample gets that far
PadTested ==
    LET percent == FULL_PERCENT_RE(sample)
        thousands == FULL_THOUSANDS_RE(sample)
        underscore == FULL_UNDERSCORE_RE(sample)
        number == FULL_NUMBER_RE(sample)
    IN  IF FULL_HEX_RE(sample).matched THEN NoMatch
        ELSE IF percent.matched THEN percent
        ELSE IF HexAccepted(FULL_UNPREFIXED_HEX_RE(sample)) THEN NoMatch
        ELSE IF thousands.matched THEN thousands
        ELSE IF underscore.matched THEN underscore
        ELSE number

\* a non-empty run of one pad character
UniformPad(text) ==
    text # <<>> /\ \E c \in {" ", "_", "*"} : \A k \in DOMAIN text : text[k] = c

Unsplit == parts = NumberParts(<<>>, sample, <<>>)

Captured == parts = NumberParts(PadTested.prefix, PadTested.num, PadTested.suffix)

\* C6 as stated: the sample is returned unsplit exactly when the captured
\* prefix and suffix are both pad runs, of different lengths or of the same
\* length and character; the captured groups are returned otherwise.
C6_BothPadsByLength ==
    LET m == PadTested
    IN  op = "split" /\ m.matched =>
            IF /\ UniformPad(m.prefix)
               /\ UniformPad(m.suffix)
               /\ (Len(m.prefix) # Len(m.suffix) \/ m.prefix[1] = m.suffix[1])
            THEN Unsplit
            ELSE Captured

\* C6: the sample is returned unsplit exactly when only one of the captured
\* prefix and suffix is a pad run, or both are and they repeat the same
\* character, whatever their lengths; the captured groups are returned
\* otherwise.
C6_PadTest ==
    LET m == PadTested
        left == UniformPad(m.prefix)
        right == UniformPad(m.suffix)
    IN  op = "split" /\ m.matched =>
            IF \/ left /\ ~right
               \/ right /\ ~left
               \/ left /\ right /\ m.prefix[1] = m.suffix[1]
            THEN Unsplit
            ELSE Captured

\* pad runs of different characters and lengths on the two sides: split
C6_Witness ==
    LET m == PadTested
    IN  /\ op = "split"
        /\ m.matched
        /\ UniformPad(m.prefix)
        /\ UniformPad(m.suffix)
        /\ Len(m.prefix) # Len(m.suffix)
        /\ parts.prefix = m.prefix
        /\ parts.suffix = m.suffix

----------------------------------------------------------------------------
(* parse_number_to_spec: the zero-padded and the grouped or plain branches *)

Parsed == op = "parse" /\ ~raised

Specs(kind) == {k \in DOMAIN specs : specs[k].value_type = kind}

\* an optional '+', a run of '0', then digits and an optional fraction
ZeroPaddedShape == FullMatch(ZERO_PADDED_RE, RemovePrefix(sample, <<"+">>))

\* the digits after the decimal point of the sample
Precision ==
    LET point == Run({c \in Range(sample) : c # "."}, sample, 1) + 1
    IN  Cardinality({k \in DOMAIN sample : k > point /\ sample[k] \in Digits})

\* the sample reaches the branch for grouped and plain decimal numbers
NumberBranch ==
    /\ ~FullMatch(HEX_RE, sample)
    /\ ~FullMatch(UNPREFIXED_HEX_RE, sample)
    /\ ~FullMatch(PERCENT_RE, sample)
    /\ ~ZeroPaddedShape
    /\ FullMatch(NUMBER_RE, Remove(Remove(sample, ","), "_"))

Grouping == FullMatch(THOUSANDS_RE, sample) \/ FullMatch(UNDERSCORE_RE, sample)

Decoration ==
    \/ args.align # <<>>
    \/ Grouping
    \/ sample # <<>> /\ sample[1] = "+"
    \/ args.fill # <<>> /\ args.fill # <<" ">>

\* C7: a zero-padded core without a decimal point gets exactly an int candidate
\* (fill '0', width the length of the core, type 'd') and then a float
\* candidate (fill '0', the same width, precision 0, type 'f').
C7_ZeroPaddedInteger ==
    op = "parse" /\ ZeroPaddedShape /\ "." \notin Range(sample) =>
        /\ ~raised
        /\ Len(specs) = 2
        /\ specs[1].value_type = "int"
        /\ specs[1].fill = <<"0">>
        /\ specs[1].width = Len(sample)
        /\ specs[1].type_char = <<"d">>
        /\ specs[2].value_type = "float"
        /\ specs[2].fill = <<"0">>
        /\ specs[2].width = Len(sample)
        /\ specs[2].decimals = <<0>>
        /\ specs[2].type_char = <<"f">>

\* a signed zero-padded core: the sign counts in the width
C7_Witness ==
    /\ Parsed
    /\ ZeroPaddedShape
    /\ "." \notin Range(sample)
    /\ sample[1] = "+"
    /\ Len(specs) = 2
    /\ specs[1].width = Len(sample)

\* C8: a zero-padded core with a decimal point, also one with no digit after
\* the point, gets exactly one candidate: a float with fill '0', width the
\* length of the core and precision the number of digits after the point.
C8_ZeroPaddedDecimal ==
    op = "parse" /\ ZeroPaddedShape /\ "." \in Range(sample) =>
        /\ ~raised
        /\ Len(specs) = 1
        /\ specs[1].value_type = "float"
        /\ specs[1].fill = <<"0">>
        /\ specs[1].width = Len(sample)
        /\ specs[1].decimals = <<Precision>>

\* C9: the grouped or plain branch always emits exactly one float candidate at
\* the precision of the core, and an int candidate exactly when the precision
\* is 0 and the literal is decorated: an align, a comma or underscore grouping,
\* a leading '+', or a fill that is neither empty nor a space.
C9_IntOnlyWhenDecorated ==
    op = "parse" /\ NumberBranch =>
        /\ ~raised
        /\ Cardinality(Specs("float")) = 1
        /\ \A k \in Specs("float") : specs[k].decimals = <<Precision>>
        /\ Specs("int") \cup Specs("float") = DOMAIN specs
        /\ Cardinality(Specs("int")) = IF Precision = 0 /\ Decoration THEN 1 ELSE 0

\* the fill alone decorates the literal
C9_Witness ==
    /\ Parsed
    /\ NumberBranch
    /\ args.align = <<>>
    /\ args.fill = <<"*">>
    /\ ~Grouping
    /\ sample[1] # "+"
    /\ Specs("int") # {}

\* C10: when the branch emits both candidates, the float one comes before the
\* int one exactly when the core is grouped with commas or underscores.
C10_FloatFirstWhenGrouped ==
    op = "parse" /\ NumberBranch /\ Specs("int") # {} /\ Specs("float") # {} =>
        ((\A i \in Specs("float"), j \in Specs("int") : i < j) <=> Grouping)

\* a grouped core, the float candidate first
C10_Witness ==
    /\ Parsed
    /\ NumberBranch
    /\ Grouping
    /\ Len(specs) = 2
    /\ specs[1].value_type = "float"
    /\ specs[2].value_type = "int"

----------------------------------------------------------------------------
(* build_format_spec: the text of a spec that is not a datetime *)

Built == op = "build" /\ specs[1].value_type # "datetime"

\* the parts of the inner specification, each from its field
FillText == IF specs[1].fill = <<" ">> THEN <<>> ELSE specs[1].fill

WidthText == IF specs[1].width = 0 THEN <<>> ELSE IntToStr(specs[1].width)

GroupingText ==
    IF specs[1].underscore THEN <<"_">> ELSE IF specs[1].comma THEN <<",">> ELSE <<>>

PrecisionText ==
    IF specs[1].decimals = <<>> THEN <<>> ELSE <<".">> \o IntToStr(specs[1].decimals[1])

TypeText ==
    IF /\ specs[1].type_char = <<"d">>
       /\ specs[1].comma \/ specs[1].underscore
       /\ specs[1].width = 0
    THEN <<>> ELSE specs[1].type_char

AfterSign == WidthText \o GroupingText \o PrecisionText \o TypeText

\* the text with the given inner specification
Rendering(inner) == <<specs[1].value_type, Wrap(specs[1].prefix, inner, specs[1].suffix)>>

\* C11 as stated: the inner specification of every spec that is not a datetime
\* is fill, align, sign, width, grouping, precision, type in this one order, so
\* that a fill comes before the sign with and without an align
C11_FillBeforeSign ==
    Built => results[1] = Rendering(FillText \o specs[1].align \o specs[1].sign \o AfterSign)

\* C11: with an align the order is fill, align, sign, width, grouping,
\* precision, type; without an align it is sign, fill, width, grouping,
\* precision, type, so that the fill of a zero-padded number follows its sign
C11_FieldOrder ==
    Built =>
        results[1] = Rendering(IF specs[1].align # <<>>
                               THEN FillText \o specs[1].align \o specs[1].sign \o AfterSign
                               ELSE specs[1].sign \o FillText \o AfterSign)

\* a zero-padded signed integer: "+09d"
C11_Witness ==
    /\ Built
    /\ specs[1].align = <<>> /\ specs[1].fill = <<"0">> /\ specs[1].sign = <<"+">>
    /\ specs[1].width = 9 /\ specs[1].type_char = <<"d">>
    /\ ~specs[1].comma /\ ~specs[1].underscore /\ specs[1].decimals = <<>>
    /\ results[1][2] = <<"f", "\"", "$">> \o VariableText
                           \o <<":", "+", "0", "9", "d", "}", "!", "\"">>

\* the last character of the inner specification (of "{variable" when it is empty)
LastOfInner == results[1][2][Len(results[1][2]) - Len(specs[1].suffix) - 2]

Grouped == specs[1].comma \/ specs[1].underscore

\* C12: the type indicator "d" is left out exactly when a grouping flag is set
\* and the width is 0, every other type indicator is kept, and of the two
\* grouping markers only the underscore is rendered when both flags are set
C12_TypeIndicator ==
    Built =>
        /\ specs[1].type_char = <<"d">> =>
               (LastOfInner = "d" <=> ~(Grouped /\ specs[1].width = 0))
        /\ specs[1].type_char = <<"f">> => LastOfInner = "f"
        /\ "_" \in Range(results[1][2]) <=> specs[1].underscore
        /\ "," \in Range(results[1][2]) <=> specs[1].comma /\ ~specs[1].underscore

\* both grouping flags and no width: "{variable:_}"
C12_Witness ==
    /\ Built
    /\ specs[1].type_char = <<"d">> /\ specs[1].comma /\ specs[1].underscore
    /\ specs[1].width = 0 /\ specs[1].decimals = <<>>
    /\ specs[1].align = <<>> /\ specs[1].fill = <<>> /\ specs[1].sign = <<>>
    /\ results[1][2] = <<"f", "\"">> \o specs[1].prefix \o VariableText
                           \o <<":", "_", "}", "!", "\"">>

----------------------------------------------------------------------------
(* analyze_number_format: the alignment, width and fill of a padded sample *)

\* the candidates of the numeric path: those that are not the datetime one
NumericEntries == SelectSeq(results, LAMBDA e : e[1] # "datetime")

\* the alignment that the sides of the pad stand for
PadAlign ==
    IF padding.right_pad = <<>> THEN <<">">>
    ELSE IF padding.left_pad = <<>> THEN <<"<">>
    ELSE <<"^">>

\* the candidates for the core, and the string one, with the given alignment,
\* fill and width
PaddedCandidates(align, fill, width) ==
    Tuples(parse_number_to_spec(padding.core, <<>>, <<>>, align, fill, width).specs
               \o <<as_string_spec(<<>>, <<>>, align, fill, width)>>)

\* C13: for an unsplit sample with padding (on one side, or on both sides with
\* equal lengths) the numeric candidates and the string fallback are those of
\* the core with alignment ">" for a left pad, "<" for a right pad, "^" for
\* both, the pad character as fill and the length of the sample as width
C13_PadAlignment ==
    Returns /\ ~SplitOff /\ Padded /\ ~UnequalPads(padding) =>
        NumericEntries = PaddedCandidates(PadAlign, padding.fill_char, Len(sample))

\* a sample like "*7*": a centred integer and the string fallback
C13_Witness ==
    /\ Returns /\ ~SplitOff
    /\ padding.left_pad # <<>> /\ Len(padding.left_pad) = Len(padding.right_pad)
    /\ padding.fill_char = <<"*">>
    /\ \E k \in DOMAIN results : results[k][1] = "int" /\ "^" \in Range(results[k][2])
    /\ \E k \in DOMAIN results : results[k][1] = "str" /\ "^" \in Range(results[k][2])

----------------------------------------------------------------------------
(* get_test_value *)

\* C14: get_test_value raises for no sample and no kind among datetime, str,
\* int and float
C14_NeverRaises == op = "test_value" => ~raised

----------------------------------------------------------------------------
(* ElectricityUsageAnalyzer *)

\* the rows handed over so far that parse, in input order
ValidRows == SelectSeq(rows, LAMBDA row : ParseRow(row).result = "tuple")

\* the readings of the valid rows that fall into one bucket, in input order
ReadingsOf(day, window) ==
    LET bucket == SelectSeq(ValidRows, LAMBDA row : /\ ParseRow(row).day = day
                                                     /\ ParseRow(row).window = window)
    IN  [k \in DOMAIN bucket |-> ParseRow(bucket[k]).consumption]

\* the number of readings in all buckets
Stored ==
    Cardinality({b \in Days \X TIME_WINDOWS \X (1..Len(rows)) :
                    b[3] <= Len(weekly_usage[b[1]][b[2]])})

\* C15: after any calls of process_csv_data every row that failed to parse
\* was answered with None and counted in malformed_rows, every bucket holds
\* the readings of its valid rows in input order, and the readings and the
\* malformed rows add up to the rows processed
C15_RowsAccounted ==
    /\ ~crashed
    /\ malformed_rows = Len(rows) - Len(ValidRows)
    /\ \A day \in Days, window \in TIME_WINDOWS :
           weekly_usage[day][window] = ReadingsOf(day, window)
    /\ Stored + malformed_rows = Len(rows)

\* average is the mean of the readings: average * len(readings) = sum(readings)
IsMean(average, readings) ==
    average.num * Len(readings) * Sum(readings).den = Sum(readings).num * average.den

\* C16: whenever calculate_averages returns, its result has an entry for each
\* of the 7 days and each of the 12 windows, the mean of the readings of the
\* bucket or 0.0 for an empty bucket, and weekly_usage and malformed_rows are
\* as they were
C16_Averages ==
    [][averages' # averages =>
          /\ DOMAIN averages' = 0..6
          /\ \A day \in 0..6 :
                 /\ DOMAIN averages'[day] = {0, 2, 4, 6, 8, 10, 12, 14, 16, 18, 20, 22}
                 /\ \A window \in DOMAIN averages'[day] :
                        IF weekly_usage[day][window] = <<>>
                        THEN averages'[day][window] = Num(0, 1)
                        ELSE IsMean(averages'[day][window], weekly_usage[day][window])
          /\ weekly_usage' = weekly_usage
          /\ malformed_rows' = malformed_rows]_vars

\* the averages of two Monday readings in the first window, 1.0 and 3.0
C16_Witness ==
    /\ averages # <<>>
    /\ weekly_usage[0][0] = <<Num(10, 10), Num(30, 10)>>
    /\ averages[0][0].num = 2 * averages[0][0].den
    /\ averages[0][2] = Num(0, 1)
    /\ averages[6][22] = Num(0, 1)
    /\ malformed_rows = 1

----------------------------------------------------------------------------
(* detect_padding, parse_number_to_spec and split_numeric_literals *)

\* the lengths of the longest runs of char at the two ends of the sample
LeftRun(char) == Greatest({n \in 0..Len(sample) : \A k \in 1..n : sample[k] = char})

RightRun(char) ==
    Greatest({n \in 0..Len(sample) : \A k \in 1..n : sample[Len(sample) + 1 - k] = char})

\* char has a run at one end of the sample and the sample is not all char
Qualifies(char) ==
    (LeftRun(char) > 0 \/ RightRun(char) > 0) /\ LeftRun(char) < Len(sample)

\* C17: detect_padding answers for the first of space, '_', '*' that has a run
\* at one end and leaves a core, with the two runs of that character as pads
\* around the core and left_pad + core + right_pad = sample; when none of the
\* three qualifies it answers (sample, "", "", space)
C17_PadPriority ==
    op = "pad" =>
        LET first == IF Qualifies(" ") THEN " "
                     ELSE IF Qualifies("_") THEN "_"
                     ELSE IF Qualifies("*") THEN "*"
                     ELSE "none"
        IN  IF first = "none"
            THEN padding = [core |-> sample, left_pad |-> <<>>, right_pad |-> <<>>,
                            fill_char |-> <<" ">>]
            ELSE /\ padding.fill_char = <<first>>
                 /\ padding.left_pad = [k \in 1..LeftRun(first) |-> first]
                 /\ padding.right_pad = [k \in 1..RightRun(first) |-> first]
                 /\ padding.core # <<>>
                 /\ padding.left_pad \o padding.core \o padding.right_pad = sample

\* "__ ": the space, with one pad character, wins over the two underscores
C17_Witness ==
    /\ op = "pad"
    /\ sample = <<"_", "_", " ">>
    /\ padding = [core |-> <<"_", "_">>, left_pad |-> <<>>, right_pad |-> <<" ">>,
                  fill_char |-> <<" ">>]

\* the cascade steps of parse_number_to_spec whose condition the sample meets
StepsMet ==
    {step \in {"hex", "unprefixed hex", "percent", "zero-padded", "decimal"} :
        \/ step = "hex" /\ FullMatch(HEX_RE, sample)
        \/ step = "unprefixed hex" /\ FullMatch(UNPREFIXED_HEX_RE, sample)
        \/ step = "percent" /\ FullMatch(PERCENT_RE, sample)
        \/ step = "zero-padded"
              /\ FullMatch(ZERO_PADDED_RE, RemovePrefix(sample, <<"+">>))
        \/ step = "decimal" /\ FullMatch(NUMBER_RE, Remove(Remove(sample, ","), "_"))}

\* C18 as stated: no core meets the condition of more than one cascade step
C18_MutuallyExclusive ==
    op = "parse" => Cardinality(StepsMet) <= 1

\* C18: a core meets the condition of at most one cascade step, except that a
\* core of the zero-padded shape also meets the condition of the decimal
\* step; such a core gets the result of the zero-padded step, which is tried
\* first
C18_ExclusiveButZeroPadded ==
    op = "parse" =>
        /\ Cardinality(StepsMet) <= 1 \/ StepsMet = {"zero-padded", "decimal"}
        /\ "zero-padded" \in StepsMet =>
               /\ "decimal" \in StepsMet
               /\ specs = ParseZeroPadded(sample, args.prefix, args.suffix).specs
               /\ raised = ParseZeroPadded(sample, args.prefix, args.suffix).raised

\* "001" is zero-padded and a plain decimal, and the two steps disagree on it
C18_Witness ==
    /\ op = "parse"
    /\ sample = <<"0", "0", "1">>
    /\ StepsMet = {"zero-padded", "decimal"}
    /\ ~raised
    /\ specs = ParseZeroPadded(sample, args.prefix, args.suffix).specs
    /\ specs # ParseNumber(sample, sample, args.prefix, args.suffix, args.align,
                           args.fill, args.width).specs

\* text is a non-empty run of one pad character
PadRun(text) ==
    text # <<>> /\ \E c \in {" ", "_", "*"} : \A k \in DOMAIN text : text[k] = c

\* the groups of the first shape that matches the sample, in the order of
\* split_numeric_literals; NoMatch when no shape matches
FirstShape ==
    LET shapes == <<FULL_HEX_RE(sample), FULL_PERCENT_RE(sample),
                    FULL_UNPREFIXED_HEX_RE(sample), FULL_THOUSANDS_RE(sample),
                    FULL_UNDERSCORE_RE(sample), FULL_NUMBER_RE(sample)>>
        met == {k \in DOMAIN shapes : shapes[k].matched}
    IN  IF met = {} THEN [shape |-> 0, groups |-> NoMatch]
        ELSE [shape |-> Least(met), groups |-> shapes[Least(met)]]

\* the match is rejected: not a prefixed hex, and one side is a pad run while
\* the other is not, or both are runs of the same pad character
Rejected ==
    LET m == FirstShape.groups
    IN  /\ FirstShape.shape > 1
        /\ PadRun(m.prefix) \/ PadRun(m.suffix)
        /\ \/ PadRun(m.prefix) # PadRun(m.suffix)
           \/ m.prefix[1] = m.suffix[1]

\* C19: the pieces split_numeric_literals returns always concatenate to the
\* sample, and when no shape matches or the match is rejected they are
\* ("", sample, "")
C19_Lossless ==
    op = "split" =>
        /\ parts.prefix \o parts.num \o parts.suffix = sample
        /\ FirstShape.shape = 0 \/ Rejected =>
               parts = NumberParts(<<>>, sample, <<>>)

\* "x7 z" is split into the literal "x", the number "7" and the literal " z"
C19_Witness ==
    /\ op = "split"
    /\ sample = <<"x", "7", " ", "z">>
    /\ parts = NumberParts(<<"x">>, <<"7">>, <<" ", "z">>)

============================================================================
